---- MODULE Spec2Model ----
(***************************************************************************)
(* Model of the Binance Futures Terminal client: the validator, the order  *)
(* executor (simulated / live), the grid generator and sequential          *)
(* dispatcher of App.tsx, and the reconnecting stream sessions of          *)
(* services/websocket.ts.                                                  *)
(*                                                                         *)
(* Texts (symbols, quantities, prices, query strings) are sequences of     *)
(* strings: typed text is one character per element, so that parsing,      *)
(* formatting, upper-casing and joining are computed and not assumed;      *)
(* fixed literals of the code are single elements.  Numbers are exact      *)
(* decimals n / 10^s; binary floating point rounding is not modelled.      *)
(* Timeouts are not measured: a timeout that is armed may fire at any      *)
(* later step, and the clock read by Date.now() is one opaque text.        *)
(***************************************************************************)
EXTENDS Integers, Sequences, FiniteSets, TLC

\* ------------------------------------------------------------------------
\* Bounds of the exploration (not program constants)
\* ------------------------------------------------------------------------
\* "(Simulated) Order Update" timeouts that may be pending together
MaxPendingFills == 1
\* stream sessions created in one behaviour
MaxSessions == 1

\* subscriptions the ticker effect of the view makes in one behaviour
MaxTickerSessions == 2

\* runs of the user-data effect in one behaviour, the one at mount included
MaxUserEffects == 4

\* renewals of the session token requested in one behaviour
MaxRenewals == 2

\* ------------------------------------------------------------------------
\* Text helpers
\* ------------------------------------------------------------------------
Undefined == <<"undefined">>

Falsy(s) == s = Undefined \/ s = <<>>

Digits == <<"0", "1", "2", "3", "4", "5", "6", "7", "8", "9">>

LowerLetters == <<"a", "b", "c", "d", "e", "f", "g", "h", "i", "j", "k", "l", "m",
                  "n", "o", "p", "q", "r", "s", "t", "u", "v", "w", "x", "y", "z">>

UpperLetters == <<"A", "B", "C", "D", "E", "F", "G", "H", "I", "J", "K", "L", "M",
                  "N", "O", "P", "Q", "R", "S", "T", "U", "V", "W", "X", "Y", "Z">>

IsDigit(c) == \E d \in 1..10 : Digits[d] = c

DigitVal(c) == (CHOOSE d \in 1..10 : Digits[d] = c) - 1

\* the character of to at the place that c has in from; c when it has none
MapChar(c, from, to) ==
    IF \E k \in 1..Len(from) : from[k] = c
    THEN to[CHOOSE k \in 1..Len(from) : from[k] = c]
    ELSE c

ToUpperCase(s) == [k \in 1..Len(s) |-> MapChar(s[k], LowerLetters, UpperLetters)]

ToLowerCase(s) == [k \in 1..Len(s) |-> MapChar(s[k], UpperLetters, LowerLetters)]

RECURSIVE Pow10(_)
Pow10(k) == IF k <= 0 THEN 1 ELSE 10 * Pow10(k - 1)

\* first index >= i of s that does not hold a blank
RECURSIVE SkipWs(_, _)
SkipWs(s, i) == IF i <= Len(s) /\ s[i] = " " THEN SkipWs(s, i + 1) ELSE i

\* first index >= i of s that does not hold a decimal digit
RECURSIVE DigitsEnd(_, _)
DigitsEnd(s, i) == IF i <= Len(s) /\ IsDigit(s[i]) THEN DigitsEnd(s, i + 1) ELSE i

\* value of the digits s[i .. j-1]
RECURSIVE DigitsValue(_, _, _)
DigitsValue(s, i, j) ==
    IF j <= i THEN 0 ELSE 10 * DigitsValue(s, i, j - 1) + DigitVal(s[j - 1])

\* index of the first "." of s, 0 when there is none (indexOf + 1)
RECURSIVE IndexOfDot(_, _)
IndexOfDot(s, i) ==
    IF i > Len(s) THEN 0 ELSE IF s[i] = "." THEN i ELSE IndexOfDot(s, i + 1)

\* decimal text of a natural number
RECURSIVE NatToText(_)
NatToText(n) ==
    IF n < 10 THEN <<Digits[n + 1]>> ELSE NatToText(n \div 10) \o <<Digits[(n % 10) + 1]>>

\* ------------------------------------------------------------------------
\* Numbers: [nan, n, s] stands for n / 10^s
\* ------------------------------------------------------------------------
NaN == [nan |-> TRUE, n |-> 0, s |-> 0]

Dec(n, s) == [nan |-> FALSE, n |-> n, s |-> s]

IsNaN(a) == a.nan

NumLT(a, b) == ~a.nan /\ ~b.nan /\ a.n * Pow10(b.s) < b.n * Pow10(a.s)

NumLE(a, b) == ~a.nan /\ ~b.nan /\ a.n * Pow10(b.s) <= b.n * Pow10(a.s)

NumGE(a, b) == NumLE(b, a)

\* TRUE when s has a character at i and it is one of cs
CharAt(s, i, cs) == i <= Len(s) /\ s[i] \in cs

\* index after an optional sign at i
SkipSign(s, i) == IF CharAt(s, i, {"+", "-"}) THEN i + 1 ELSE i

\* index after an optional "." at i and the digits that follow it
SkipFraction(s, i) == IF CharAt(s, i, {"."}) THEN DigitsEnd(s, i + 1) ELSE i

\* number of digits of the fraction s[i .. j-1], "." included in the range
FractionLen(i, j) == IF j > i THEN j - i - 1 ELSE 0

\* value of an exponent part at i: "e" or "E", optional sign, digits; 0 when
\* there is none or it has no digits
Exponent(s, i) ==
    IF CharAt(s, i, {"e", "E"})
    THEN (IF CharAt(s, i + 1, {"-"}) THEN -1 ELSE 1)
         * DigitsValue(s, SkipSign(s, i + 1), DigitsEnd(s, SkipSign(s, i + 1)))
    ELSE 0

\* m * 10^shift as an exact decimal
Scaled(m, shift) == IF shift >= 0 THEN Dec(m * Pow10(shift), 0) ELSE Dec(m, -shift)

\* JavaScript parseFloat: leading blanks, sign, digits, fraction, exponent;
\* the longest numeric prefix is used, NaN when there is none
ParseFloat(str) ==
    IF str = Undefined THEN NaN ELSE
    LET i1   == SkipSign(str, SkipWs(str, 1))
        i2   == DigitsEnd(str, i1)
        i3   == SkipFraction(str, i2)
        sign == IF CharAt(str, SkipWs(str, 1), {"-"}) THEN -1 ELSE 1
        mant == DigitsValue(str, i1, i2) * Pow10(FractionLen(i2, i3))
                + DigitsValue(str, i2 + 1, i3)
    IN  IF (i2 - i1) + FractionLen(i2, i3) = 0 THEN NaN
        ELSE Scaled(sign * mant, Exponent(str, i3) - FractionLen(i2, i3))

\* JavaScript parseInt (radix 10): leading blanks, sign, digits
ParseInt(str) ==
    IF str = Undefined THEN NaN ELSE
    LET i1   == SkipSign(str, SkipWs(str, 1))
        sign == IF CharAt(str, SkipWs(str, 1), {"-"}) THEN -1 ELSE 1
    IN  IF DigitsEnd(str, i1) = i1 THEN NaN
        ELSE Dec(sign * DigitsValue(str, i1, DigitsEnd(str, i1)), 0)

\* ------------------------------------------------------------------------
\* types.ts
\* ------------------------------------------------------------------------
\* enum members are never taken apart, so each is a text of one atom
BUY == <<"BUY">>

SELL == <<"SELL">>

MARKET == <<"MARKET">>

LIMIT == <<"LIMIT">>

STOP_LIMIT == <<"STOP_LIMIT">>

OrderRequest(sym, side, type, quantity, price, stopPrice, tif) ==
    [symbol |-> sym, side |-> side, type |-> type, quantity |-> quantity,
     price |-> price, stopPrice |-> stopPrice, timeInForce |-> tif]

\* ------------------------------------------------------------------------
\* utils/validator.ts
\* ------------------------------------------------------------------------
BTCUSDT == <<"B", "T", "C", "U", "S", "D", "T">>

ETHUSDT == <<"E", "T", "H", "U", "S", "D", "T">>

SOLUSDT == <<"S", "O", "L", "U", "S", "D", "T">>

SymbolRules(minQty, priceDecimals, qtyDecimals) ==
    [minQty |-> minQty, priceDecimals |-> priceDecimals, qtyDecimals |-> qtyDecimals]

\* the table TRADING_RULES with its entry DEFAULT
TRADING_RULES ==
    (BTCUSDT :> SymbolRules(Dec(1, 3), 1, 3))
    @@ (ETHUSDT :> SymbolRules(Dec(1, 2), 2, 3))
    @@ (<<"B", "N", "B", "U", "S", "D", "T">> :> SymbolRules(Dec(1, 2), 2, 2))
    @@ (SOLUSDT :> SymbolRules(Dec(1, 0), 3, 0))
    @@ (<<"X", "R", "P", "U", "S", "D", "T">> :> SymbolRules(Dec(1, 1), 4, 1))
    @@ (<<"A", "D", "A", "U", "S", "D", "T">> :> SymbolRules(Dec(1, 0), 4, 0))
    @@ (<<"D", "O", "G", "E", "U", "S", "D", "T">> :> SymbolRules(Dec(1, 0), 5, 0))
    @@ (<<"D", "E", "F", "A", "U", "L", "T">> :> SymbolRules(Dec(1, 3), 2, 3))

\* TRADING_RULES[symbol.toUpperCase()] || TRADING_RULES['DEFAULT']
getSymbolRules(sym) ==
    IF ToUpperCase(sym) \in DOMAIN TRADING_RULES
    THEN TRADING_RULES[ToUpperCase(sym)]
    ELSE TRADING_RULES[<<"D", "E", "F", "A", "U", "L", "T">>]

\* variant: the decimals are counted on the value, trailing zeros dropped
countDecimalsNumeric(valueStr) ==
    IF IsNaN(ParseFloat(valueStr)) THEN 0
    ELSE CHOOSE d \in 0..ParseFloat(valueStr).s :
           /\ ParseFloat(valueStr).n % Pow10(ParseFloat(valueStr).s - d) = 0
           /\ \A e \in 0..(d - 1) :
                 ParseFloat(valueStr).n % Pow10(ParseFloat(valueStr).s - e) # 0

\* characters between the first "." and the next "." (or the end)
countDecimals(valueStr) ==
    LET d == IndexOfDot(valueStr, 1)
        e == IndexOfDot(valueStr, d + 1)
    IN  IF d = 0 THEN 0
        ELSE IF e = 0 THEN Len(valueStr) - d ELSE e - d - 1

Null == "null"

\* variant: the precision of the quantity is checked before its minimum
validateOrderInputPrecisionFirst(order) ==
    LET rules     == getSymbolRules(order.symbol)
        qty       == ParseFloat(order.quantity)
        price     == ParseFloat(order.price)
        stopPrice == ParseFloat(order.stopPrice)
    IN  IF Falsy(order.quantity) \/ IsNaN(qty)
          THEN "Quantity is required and must be a number."
        ELSE IF countDecimals(order.quantity) > rules.qtyDecimals
          THEN "Quantity precision too high."
        ELSE IF NumLT(qty, rules.minQty)
          THEN "Quantity is below the minimum allowed."
        ELSE IF order.type \in {LIMIT, STOP_LIMIT} /\ (Falsy(order.price) \/ IsNaN(price))
          THEN "Price is required for Limit/Stop-Limit orders."
        ELSE IF order.type \in {LIMIT, STOP_LIMIT} /\ NumLE(price, Dec(0, 0))
          THEN "Price must be greater than 0."
        ELSE IF order.type \in {LIMIT, STOP_LIMIT}
                /\ countDecimals(order.price) > rules.priceDecimals
          THEN "Price precision too high."
        ELSE IF order.type = STOP_LIMIT /\ (Falsy(order.stopPrice) \/ IsNaN(stopPrice))
          THEN "Stop Price is required for Stop-Limit orders."
        ELSE IF order.type = STOP_LIMIT /\ NumLE(stopPrice, Dec(0, 0))
          THEN "Stop Price must be greater than 0."
        ELSE IF order.type = STOP_LIMIT
                /\ countDecimals(order.stopPrice) > rules.priceDecimals
          THEN "Stop Price precision too high."
        ELSE Null

validateOrderInput(order) ==
    LET rules     == getSymbolRules(order.symbol)
        qty       == ParseFloat(order.quantity)
        price     == ParseFloat(order.price)
        stopPrice == ParseFloat(order.stopPrice)
    IN  IF Falsy(order.quantity) \/ IsNaN(qty)
          THEN "Quantity is required and must be a number."
        ELSE IF NumLT(qty, rules.minQty)
          THEN "Quantity is below the minimum allowed."
        ELSE IF countDecimals(order.quantity) > rules.qtyDecimals
          THEN "Quantity precision too high."
        ELSE IF order.type \in {LIMIT, STOP_LIMIT} /\ (Falsy(order.price) \/ IsNaN(price))
          THEN "Price is required for Limit/Stop-Limit orders."
        ELSE IF order.type \in {LIMIT, STOP_LIMIT} /\ NumLE(price, Dec(0, 0))
          THEN "Price must be greater than 0."
        ELSE IF order.type \in {LIMIT, STOP_LIMIT}
                /\ countDecimals(order.price) > rules.priceDecimals
          THEN "Price precision too high."
        ELSE IF order.type = STOP_LIMIT /\ (Falsy(order.stopPrice) \/ IsNaN(stopPrice))
          THEN "Stop Price is required for Stop-Limit orders."
        ELSE IF order.type = STOP_LIMIT /\ NumLE(stopPrice, Dec(0, 0))
          THEN "Stop Price must be greater than 0."
        ELSE IF order.type = STOP_LIMIT
                /\ countDecimals(order.stopPrice) > rules.priceDecimals
          THEN "Stop Price precision too high."
        ELSE Null

validateGridInput(sym, minPrice, maxPrice, quantity) ==
    LET rules == getSymbolRules(sym)
        min   == ParseFloat(minPrice)
        max   == ParseFloat(maxPrice)
        qty   == ParseFloat(quantity)
    IN  IF Falsy(minPrice) \/ Falsy(maxPrice)
          THEN "Min and Max prices are required."
        ELSE IF NumGE(min, max)
          THEN "Min Price must be lower than Max Price."
        ELSE IF NumLE(min, Dec(0, 0))
          THEN "Min Price must be positive."
        ELSE IF countDecimals(minPrice) > rules.priceDecimals
          THEN "Min Price precision too high."
        ELSE IF countDecimals(maxPrice) > rules.priceDecimals
          THEN "Max Price precision too high."
        ELSE IF Falsy(quantity)
          THEN "Quantity per grid is required."
        ELSE IF NumLT(qty, rules.minQty)
          THEN "Grid quantity below minimum."
        ELSE IF countDecimals(quantity) > rules.qtyDecimals
          THEN "Quantity precision too high."
        ELSE Null

\* ------------------------------------------------------------------------
\* State
\* ------------------------------------------------------------------------
VARIABLES
    symbol,          \* App: selected symbol
    demoMode,        \* App: TRUE = simulated, FALSE = live
    apiKey,          \* App: credential fields
    apiSecret,
    isLoading,       \* App: an operation is running
    logs,            \* App: log records added since the last handler started
    currentPrice,    \* App: last price delivered by the ticker callback
    validationError, \* validationError of the mounted form, and which form it is
    op,              \* the running (or last) handler invocation and its locals
    calls,           \* placeOrder / cancelOrder promises that have not settled
    delayTimer,      \* the dispatcher's inter-order timeout (its ms), or NoTimer
    fillTimers,      \* pending "(Simulated) Order Update" timeouts
    requests,        \* HTTP requests issued since the last handler started
    attempts,        \* placeOrder / cancelOrder calls since the last handler started
    delayed,         \* the inter-order timeout has fired since a call last settled
    sessions,        \* the closures of the subscribeToTicker / subscribeToUserData calls
    tickerTimer,     \* App: the debounce timeout of the ticker effect (its ms), or NoTimer
    evaluation,      \* a pure function under evaluation: its arguments, then its result
    userEffects      \* App: the closures of the runs of the user-data effect

NoTimer == 0

\* Date.now().toString()
Timestamp == <<"Date.now()">>

\* ------------------------------------------------------------------------
\* Timing constants of the code
\* ------------------------------------------------------------------------
MOCK_PLACE_DELAY == 800

MOCK_CANCEL_DELAY == 600

INTER_ORDER_DELAY == 200

SIMULATED_FILL_DELAY == 2000

DEBOUNCE_DELAY == 500

RECONNECT_DELAY == 3000

\* 50 * 60 * 1000
KEEP_ALIVE_PERIOD == 3000000

\* ------------------------------------------------------------------------
\* utils/crypto.ts
\* ------------------------------------------------------------------------
\* the digest is kept symbolic: a text that determines key and message
hmacSha256(key, message) == <<"hmac[">> \o key \o <<"|">> \o message \o <<"]">>

\* ------------------------------------------------------------------------
\* services/api.ts
\* ------------------------------------------------------------------------
Param(key, value) == [key |-> key, value |-> value]

\* Object.keys(params).map(key => `${key}=${params[key]}`).join('&')
RECURSIVE QueryString(_)
QueryString(params) ==
    IF params = <<>> THEN <<>>
    ELSE LET head == <<params[1].key, "=">> \o params[1].value
         IN  IF Len(params) = 1 THEN head
             ELSE head \o <<"&">> \o QueryString(Tail(params))

\* variant: only the credentials are checked before signing
RealPlaceOrderErrorCredsOnly(order, creds) ==
    IF Falsy(creds.apiKey) \/ Falsy(creds.apiSecret)
      THEN "API Credentials missing"
      ELSE Null

\* the message of the error thrown by realPlaceOrder before signing, or Null
RealPlaceOrderError(order, creds) ==
    IF Falsy(creds.apiKey) \/ Falsy(creds.apiSecret)
      THEN "API Credentials missing"
    ELSE IF order.type = LIMIT /\ Falsy(order.price)
      THEN "Price is required for LIMIT orders"
    ELSE IF order.type = STOP_LIMIT /\ Falsy(order.price)
      THEN "Price is required for STOP_LIMIT orders"
    ELSE IF order.type = STOP_LIMIT /\ Falsy(order.stopPrice)
      THEN "Stop Price is required for STOP_LIMIT orders"
    ELSE Null

\* variant: a price carried by the order is sent whatever the type
PlaceOrderParamsAnyPrice(order, timestamp) ==
    << Param("symbol", ToUpperCase(order.symbol)),
       Param("side", order.side),
       Param("quantity", order.quantity),
       Param("timestamp", timestamp),
       Param("recvWindow", <<"5000">>),
       Param("type", IF order.type = STOP_LIMIT THEN <<"STOP">> ELSE order.type) >>
    \o (IF Falsy(order.price) THEN <<>> ELSE << Param("price", order.price) >>)
    \o (IF order.type = STOP_LIMIT THEN << Param("stopPrice", order.stopPrice) >> ELSE <<>>)
    \o (IF order.type = MARKET THEN <<>> ELSE << Param("timeInForce", <<"GTC">>) >>)

\* the params object of realPlaceOrder, in insertion order
PlaceOrderParams(order, timestamp) ==
    LET base == << Param("symbol", ToUpperCase(order.symbol)),
                   Param("side", order.side),
                   Param("quantity", order.quantity),
                   Param("timestamp", timestamp),
                   Param("recvWindow", <<"5000">>) >>
    IN  IF order.type = MARKET
          THEN base \o << Param("type", <<"MARKET">>) >>
        ELSE IF order.type = LIMIT
          THEN base \o << Param("type", <<"LIMIT">>),
                          Param("price", order.price),
                          Param("timeInForce", <<"GTC">>) >>
        ELSE IF order.type = STOP_LIMIT
          THEN base \o << Param("type", <<"STOP">>),
                          Param("price", order.price),
                          Param("stopPrice", order.stopPrice),
                          Param("timeInForce", <<"GTC">>) >>
        ELSE base

\* variant: whatever parses as a number counts as numeric
IsNumericIdLoose(orderId) == ~IsNaN(ParseFloat(orderId))

\* /^\d+$/.test(orderId)
IsNumericId(orderId) ==
    /\ orderId # Undefined
    /\ Len(orderId) > 0
    /\ \A k \in 1..Len(orderId) : IsDigit(orderId[k])

\* the params object of realCancelOrder, in insertion order
CancelOrderParams(sym, orderId, timestamp) ==
    LET base == << Param("symbol", ToUpperCase(sym)),
                   Param("timestamp", timestamp),
                   Param("recvWindow", <<"5000">>) >>
    IN  IF IsNumericId(orderId)
          THEN base \o << Param("orderId", orderId) >>
          ELSE base \o << Param("origClientOrderId", orderId) >>

RealCancelOrderError(creds) ==
    IF Falsy(creds.apiKey) \/ Falsy(creds.apiSecret)
      THEN "API Credentials missing"
      ELSE Null

\* variant: the signature is put in front of the signed parameters
fullQueryStringSignatureFirst(queryString, signature) ==
    <<"signature", "=">> \o signature \o <<"&">> \o queryString

\* `${queryString}&signature=${signature}`
fullQueryString(queryString, signature) ==
    queryString \o <<"&", "signature", "=">> \o signature

\* Math.floor(Math.random() * 1000000000), by a representative
RandomIds == {123456789}

\* the object mockPlaceOrder resolves with
MockPlaceOrderResponse(order, randomId, timestamp) ==
    [orderId |-> randomId,
     symbol |-> ToUpperCase(order.symbol),
     status |-> <<"NEW">>,
     clientOrderId |-> <<"web_">> \o timestamp,
     price |-> IF Falsy(order.price) THEN <<"0">> ELSE order.price,
     origQty |-> order.quantity,
     executedQty |-> <<"0">>,
     timeInForce |-> <<"GTC">>,
     type |-> order.type,
     side |-> order.side,
     stopPrice |-> IF Falsy(order.stopPrice) THEN <<"0">> ELSE order.stopPrice]

\* the object mockCancelOrder resolves with
MockCancelOrderResponse(sym, orderId, randomId, timestamp) ==
    [orderId |-> IF IsNumericId(orderId) THEN ParseInt(orderId).n ELSE randomId,
     symbol |-> ToUpperCase(sym),
     status |-> <<"CANCELED">>,
     clientOrderId |-> IF IsNumericId(orderId)
                       THEN <<"web_">> \o timestamp ELSE orderId,
     price |-> <<"0">>,
     origQty |-> <<"0.100">>,
     executedQty |-> <<"0.000">>,
     timeInForce |-> <<"GTC">>,
     type |-> <<"LIMIT">>,
     side |-> <<"BUY">>,
     stopPrice |-> <<"0">>]

Resolved(data) == [ok |-> TRUE, message |-> "", data |-> data]

Rejected(message) == [ok |-> FALSE, message |-> message, data |-> [orderId |-> -1]]

\* ------------------------------------------------------------------------
\* The part of the state that the handlers and the executor change
\* ------------------------------------------------------------------------
Handlers ==
    [isLoading |-> isLoading, logs |-> logs, op |-> op, calls |-> calls,
     delayTimer |-> delayTimer, fillTimers |-> fillTimers,
     requests |-> requests, attempts |-> attempts, delayed |-> delayed]

Assign(h) ==
    \E r \in {h} :
        /\ isLoading' = r.isLoading
        /\ logs' = r.logs
        /\ op' = r.op
        /\ calls' = r.calls
        /\ delayTimer' = r.delayTimer
        /\ fillTimers' = r.fillTimers
        /\ requests' = r.requests
        /\ attempts' = r.attempts
        /\ delayed' = r.delayed

\* a number that names no call of h
FreshId(h) ==
    LET used == {h.attempts[k].id : k \in 1..Len(h.attempts)}
                \cup {h.calls[k].id : k \in 1..Len(h.calls)}
    IN  CHOOSE id \in 1..(Cardinality(used) + 1) : id \notin used

addLog(h, level, message, details) ==
    [h EXCEPT !.logs = Append(@, [level |-> level, message |-> message,
                                  details |-> details])]

\* variant: the parameters are checked in simulated mode too
placeOrderAlwaysChecked(h, isDemo, order, creds, index) ==
    LET id      == FreshId(h)
        error   == RealPlaceOrderError(order, creds)
        attempt == [id |-> id, fn |-> "placeOrder", index |-> index,
                    isDemo |-> isDemo, afterDelay |-> h.delayed, done |-> error # Null,
                    ok |-> FALSE]
        call    == [id |-> id, fn |-> "placeOrder",
                    pc |-> IF isDemo THEN "mock" ELSE "sign",
                    timer |-> IF isDemo THEN MOCK_PLACE_DELAY ELSE NoTimer,
                    order |-> order, orderId |-> Undefined, creds |-> creds,
                    queryString |-> IF isDemo THEN <<>>
                                    ELSE QueryString(PlaceOrderParams(order, Timestamp))]
    IN  [error |-> error,
         id    |-> id,
         h     |-> [h EXCEPT !.attempts = Append(@, attempt),
                             !.calls = IF error = Null THEN Append(@, call) ELSE @,
                             !.delayed = IF error = Null THEN @ ELSE FALSE]]

\* placeOrder(isDemo, order, creds) up to its first suspension: a mock
\* timeout, the signing of the query string, or a throw (error # Null)
placeOrder(h, isDemo, order, creds, index) ==
    LET id      == FreshId(h)
        error   == IF isDemo THEN Null ELSE RealPlaceOrderError(order, creds)
        attempt == [id |-> id, fn |-> "placeOrder", index |-> index,
                    isDemo |-> isDemo, afterDelay |-> h.delayed, done |-> error # Null,
                    ok |-> FALSE]
        call    == [id |-> id, fn |-> "placeOrder",
                    pc |-> IF isDemo THEN "mock" ELSE "sign",
                    timer |-> IF isDemo THEN MOCK_PLACE_DELAY ELSE NoTimer,
                    order |-> order, orderId |-> Undefined, creds |-> creds,
                    queryString |-> IF isDemo THEN <<>>
                                    ELSE QueryString(PlaceOrderParams(order, Timestamp))]
    IN  [error |-> error,
         id    |-> id,
         h     |-> [h EXCEPT !.attempts = Append(@, attempt),
                             !.calls = IF error = Null THEN Append(@, call) ELSE @,
                             !.delayed = IF error = Null THEN @ ELSE FALSE]]

\* cancelOrder(isDemo, symbol, orderId, creds) up to its first suspension
cancelOrder(h, isDemo, sym, orderId, creds) ==
    LET id      == FreshId(h)
        error   == IF isDemo THEN Null ELSE RealCancelOrderError(creds)
        attempt == [id |-> id, fn |-> "cancelOrder", index |-> 1,
                    isDemo |-> isDemo, afterDelay |-> h.delayed, done |-> error # Null,
                    ok |-> FALSE]
        call    == [id |-> id, fn |-> "cancelOrder",
                    pc |-> IF isDemo THEN "mock" ELSE "sign",
                    timer |-> IF isDemo THEN MOCK_CANCEL_DELAY ELSE NoTimer,
                    order |-> OrderRequest(sym, Undefined, Undefined, Undefined,
                                           Undefined, Undefined, Undefined),
                    orderId |-> orderId, creds |-> creds,
                    queryString |-> IF isDemo THEN <<>>
                                    ELSE QueryString(CancelOrderParams(sym, orderId, Timestamp))]
    IN  [error |-> error,
         id    |-> id,
         h     |-> [h EXCEPT !.attempts = Append(@, attempt),
                             !.calls = IF error = Null THEN Append(@, call) ELSE @,
                             !.delayed = IF error = Null THEN @ ELSE FALSE]]

\* fetch(`${BASE_URL}/fapi/v1/listenKey`, {method, headers}) up to the
\* suspension on the response: the request goes out with the two headers
\* and without query string
ListenKeyCall(h, fn, method, key) ==
    LET id      == FreshId(h)
        attempt == [id |-> id, fn |-> fn, index |-> 1, isDemo |-> FALSE,
                    afterDelay |-> h.delayed, done |-> FALSE, ok |-> FALSE]
        call    == [id |-> id, fn |-> fn, pc |-> "fetch", timer |-> NoTimer,
                    order |-> OrderRequest(Undefined, Undefined, Undefined, Undefined,
                                           Undefined, Undefined, Undefined),
                    orderId |-> Undefined,
                    creds |-> [apiKey |-> key, apiSecret |-> Undefined],
                    queryString |-> <<>>]
        request == [call |-> id, method |-> method, path |-> "/fapi/v1/listenKey",
                    query |-> <<>>, apiKeyHeader |-> key]
    IN  [error |-> Null,
         id    |-> id,
         h     |-> [h EXCEPT !.attempts = Append(@, attempt),
                             !.calls = Append(@, call),
                             !.requests = Append(@, request)]]

getListenKey(h, key) == ListenKeyCall(h, "getListenKey", "POST", key)

keepAliveListenKey(h, key) == ListenKeyCall(h, "keepAliveListenKey", "PUT", key)

\* ------------------------------------------------------------------------
\* App.tsx: the handlers
\* ------------------------------------------------------------------------
Credentials(key, secret) == [apiKey |-> key, apiSecret |-> secret]

NoDetails == <<>>

\* the locals and captured state of one handler invocation
NewOp(kind, orders, orderId) ==
    [kind |-> kind, pc |-> "run", outcome |-> "running",
     demoMode |-> demoMode, creds |-> Credentials(apiKey, apiSecret),
     currentPrice |-> currentPrice, orders |-> orders, orderId |-> orderId,
     i |-> 0, successCount |-> 0, failCount |-> 0, awaiting |-> 0,
     result |-> Rejected("")]

NoOp ==
    [kind |-> "none", pc |-> "idle", outcome |-> "none",
     demoMode |-> TRUE, creds |-> Credentials(<<>>, <<>>),
     currentPrice |-> Undefined, orders |-> <<>>, orderId |-> Undefined,
     i |-> 0, successCount |-> 0, failCount |-> 0, awaiting |-> 0,
     result |-> Rejected("")]

\* variant: only the key is looked at
CredentialsMissingKeyOnly(o) == ~o.demoMode /\ Falsy(o.creds.apiKey)

\* !demoMode && (!apiKey || !apiSecret)
CredentialsMissing(o) == ~o.demoMode /\ (Falsy(o.creds.apiKey) \/ Falsy(o.creds.apiSecret))

\* a handler starts: setIsLoading(true); the histories restart with it
StartOp(h, o) ==
    [h EXCEPT !.isLoading = TRUE, !.op = o, !.logs = <<>>, !.attempts = <<>>,
              !.requests = <<>>, !.delayed = FALSE]

\* error.message || fallback
MessageOr(message, fallback) == IF message = "" THEN fallback ELSE message

\* --- handleGridSubmit ---------------------------------------------------
\* try-branch after the awaited placeOrder resolved: log, count, then wait
GridOrderPlaced(h) ==
    LET order == h.op.orders[h.op.i]
        h1    == addLog(h, "SUCCESS", "Grid Order Placed",
                        [side |-> order.side, price |-> order.price])
    IN  [h1 EXCEPT !.op.successCount = @ + 1,
                   !.op.pc = "delay",
                   !.op.awaiting = 0,
                   !.delayTimer = INTER_ORDER_DELAY]

\* variant: the first failure ends the batch
GridOrderFailedAbort(h, message) ==
    LET order == h.op.orders[h.op.i]
        h1    == addLog(h, "ERROR", "Grid Order Failed",
                        [price |-> order.price, error |-> message])
    IN  [h1 EXCEPT !.op.failCount = @ + 1, !.op.awaiting = 0,
                   !.op.i = Len(h.op.orders)]

\* catch-branch: log and count, the loop goes on at once
GridOrderFailed(h, message) ==
    LET order == h.op.orders[h.op.i]
        h1    == addLog(h, "ERROR", "Grid Order Failed",
                        [price |-> order.price, error |-> message])
    IN  [h1 EXCEPT !.op.failCount = @ + 1, !.op.awaiting = 0]

\* after the loop
GridComplete(h) ==
    LET h1 == addLog(h, "INFO", "Grid Deployment Complete",
                     [success |-> h.op.successCount, failed |-> h.op.failCount])
    IN  [h1 EXCEPT !.isLoading = FALSE, !.op.pc = "idle", !.op.outcome = "complete"]

RECURSIVE GridLoop(_)

\* variant: placeOrder is not awaited
GridAttemptNoAwait(h) ==
    LET r == placeOrder(h, h.op.demoMode, h.op.orders[h.op.i], h.op.creds, h.op.i)
    IN  IF r.error # Null
        THEN GridLoop(GridOrderFailed(r.h, r.error))
        ELSE GridOrderPlaced(r.h)

\* variant: each iteration reads the mode and the credential fields anew
GridAttemptCurrentSettings(h) ==
    LET r == placeOrder(h, demoMode, h.op.orders[h.op.i],
                        [apiKey |-> apiKey, apiSecret |-> apiSecret], h.op.i)
    IN  IF r.error # Null
        THEN GridLoop(GridOrderFailed(r.h, r.error))
        ELSE [r.h EXCEPT !.op.pc = "await", !.op.awaiting = r.id]

\* one iteration of the loop body up to its suspension
GridAttempt(h) ==
    LET r == placeOrder(h, h.op.demoMode, h.op.orders[h.op.i], h.op.creds, h.op.i)
    IN  IF r.error # Null
        THEN GridLoop(GridOrderFailed(r.h, r.error))
        ELSE [r.h EXCEPT !.op.pc = "await", !.op.awaiting = r.id]

\* for (const order of orders), resumed after order h.op.i
GridLoop(h) ==
    IF h.op.i >= Len(h.op.orders)
    THEN GridComplete(h)
    ELSE GridAttempt([h EXCEPT !.op.i = @ + 1])

GridSettled(h, result) ==
    IF result.ok THEN GridOrderPlaced(h)
    ELSE GridLoop(GridOrderFailed(h, result.message))

\* variant: the early return for missing credentials leaves isLoading set
handleGridSubmitNoReset(h, orders) ==
    LET o  == NewOp("grid", orders, Undefined)
        h1 == addLog(StartOp(h, o), "INFO",
                     "Starting Grid Deployment", [count |-> Len(orders)])
    IN  IF CredentialsMissing(o)
        THEN [addLog(h1, "ERROR", "API Key and Secret required for Live Mode", NoDetails)
                EXCEPT !.op.pc = "idle", !.op.outcome = "credentials"]
        ELSE GridLoop(h1)

handleGridSubmit(h, orders) ==
    LET o  == NewOp("grid", orders, Undefined)
        h1 == addLog(StartOp(h, o), "INFO",
                     "Starting Grid Deployment", [count |-> Len(orders)])
    IN  IF CredentialsMissing(o)
        THEN [addLog(h1, "ERROR", "API Key and Secret required for Live Mode", NoDetails)
                EXCEPT !.isLoading = FALSE, !.op.pc = "idle",
                       !.op.outcome = "credentials"]
        ELSE GridLoop(h1)

\* --- handleOrderSubmit --------------------------------------------------
\* catch + finally
OrderFailed(h, message) ==
    [addLog(h, "ERROR", MessageOr(message, "Failed to place order"), NoDetails)
       EXCEPT !.isLoading = FALSE, !.op.pc = "idle", !.op.awaiting = 0,
              !.op.outcome = "failed"]

\* rest of the try block + finally
OrderPlaced(h, response) ==
    LET order == h.op.orders[1]
        h1    == addLog(h, "SUCCESS", "Order Placed Successfully", response)
        fill  == [timer |-> SIMULATED_FILL_DELAY,
                  price |-> IF ~Falsy(h.op.currentPrice) THEN h.op.currentPrice
                            ELSE IF ~Falsy(order.price) THEN order.price
                            ELSE <<"Market">>]
    IN  [h1 EXCEPT !.fillTimers = IF h.op.demoMode THEN Append(@, fill) ELSE @,
                   !.isLoading = FALSE, !.op.pc = "idle", !.op.awaiting = 0,
                   !.op.outcome = "complete"]

handleOrderSubmit(h, order) ==
    LET o  == NewOp("order", <<order>>, Undefined)
        h1 == addLog(StartOp(h, o), "INFO",
                     "Preparing to send order", order)
        r  == placeOrder(h1, o.demoMode, order, o.creds, 1)
    IN  IF CredentialsMissing(o)
          THEN [OrderFailed(h1, "API Key and Secret required for Live Mode")
                  EXCEPT !.op.outcome = "credentials"]
        ELSE IF r.error # Null
          THEN OrderFailed(r.h, r.error)
        ELSE [r.h EXCEPT !.op.pc = "await", !.op.awaiting = r.id]

\* --- handleCancelSubmit -------------------------------------------------
CancelFailed(h, message) ==
    [addLog(h, "ERROR", MessageOr(message, "Failed to cancel order"), NoDetails)
       EXCEPT !.isLoading = FALSE, !.op.pc = "idle", !.op.awaiting = 0,
              !.op.outcome = "failed"]

CancelDone(h, response) ==
    LET h1 == addLog(h, "SUCCESS", "Order Canceled", response)
        h2 == IF h.op.demoMode
              THEN addLog(h1, "WARN", "(Simulated) Order Status Updated: CANCELED",
                          NoDetails)
              ELSE h1
    IN  [h2 EXCEPT !.isLoading = FALSE, !.op.pc = "idle", !.op.awaiting = 0,
                   !.op.outcome = "complete"]

handleCancelSubmit(h, targetSymbol, orderId) ==
    LET target == OrderRequest(targetSymbol, Undefined, Undefined, Undefined,
                               Undefined, Undefined, Undefined)
        o  == NewOp("cancel", <<target>>, orderId)
        h1 == addLog(StartOp(h, o), "INFO",
                     "Attempting to cancel order", [orderId |-> orderId])
        r  == cancelOrder(h1, o.demoMode, targetSymbol, orderId, o.creds)
    IN  IF CredentialsMissing(o)
          THEN [CancelFailed(h1, "API Key and Secret required for Live Mode")
                  EXCEPT !.op.outcome = "credentials"]
        ELSE IF r.error # Null
          THEN CancelFailed(r.h, r.error)
        ELSE [r.h EXCEPT !.op.pc = "await", !.op.awaiting = r.id]

\* --- a caller of the module services/api.ts ----------------------------
\* the promise of the call settles: the caller keeps the result
DirectSettled(h, result) ==
    [h EXCEPT !.op.pc = "idle", !.op.awaiting = 0, !.op.result = result,
              !.op.outcome = IF result.ok THEN "complete" ELSE "failed"]

DirectOp(isDemo, orders, orderId, creds) ==
    [NoOp EXCEPT !.kind = "direct", !.pc = "run", !.outcome = "running",
                 !.demoMode = isDemo, !.creds = creds, !.orders = orders,
                 !.orderId = orderId]

DirectStart(h, o) ==
    [h EXCEPT !.op = o, !.logs = <<>>, !.attempts = <<>>, !.requests = <<>>,
              !.delayed = FALSE]

\* await placeOrder(isDemo, order, creds)
DirectPlaceOrder(h, isDemo, order, creds) ==
    LET r == placeOrder(DirectStart(h, DirectOp(isDemo, <<order>>, Undefined, creds)),
                        isDemo, order, creds, 1)
    IN  IF r.error # Null
        THEN DirectSettled(r.h, Rejected(r.error))
        ELSE [r.h EXCEPT !.op.pc = "await", !.op.awaiting = r.id]

\* await cancelOrder(isDemo, symbol, orderId, creds)
DirectCancelOrder(h, isDemo, sym, orderId, creds) ==
    LET target == OrderRequest(sym, Undefined, Undefined, Undefined,
                               Undefined, Undefined, Undefined)
        r == cancelOrder(DirectStart(h, DirectOp(isDemo, <<target>>, orderId, creds)),
                         isDemo, sym, orderId, creds)
    IN  IF r.error # Null
        THEN DirectSettled(r.h, Rejected(r.error))
        ELSE [r.h EXCEPT !.op.pc = "await", !.op.awaiting = r.id]

\* await getListenKey(apiKey) / await keepAliveListenKey(apiKey)
DirectListenKey(h, renew, key) ==
    LET started == DirectStart(h, DirectOp(FALSE, <<>>, Undefined,
                                           Credentials(key, Undefined)))
        r == IF renew THEN keepAliveListenKey(started, key)
                      ELSE getListenKey(started, key)
    IN  [r.h EXCEPT !.op.pc = "await", !.op.awaiting = r.id]

\* --- a promise settles: the handler awaiting it goes on -----------------
Continue(h, result) ==
    CASE h.op.kind = "grid"   -> GridSettled(h, result)
      [] h.op.kind = "order"  -> IF result.ok THEN OrderPlaced(h, result.data)
                                 ELSE OrderFailed(h, result.message)
      [] h.op.kind = "cancel" -> IF result.ok THEN CancelDone(h, result.data)
                                 ELSE CancelFailed(h, result.message)
      [] OTHER                -> DirectSettled(h, result)

CallIndex(h, id) == CHOOSE k \in 1..Len(h.calls) : h.calls[k].id = id

RemoveAt(seq, k) == SubSeq(seq, 1, k - 1) \o SubSeq(seq, k + 1, Len(seq))

Settle(h, id, result) ==
    LET h1 == [h EXCEPT !.calls = RemoveAt(@, CallIndex(h, id)),
                        !.attempts = [k \in 1..Len(@) |->
                                        IF @[k].id = id
                                        THEN [@[k] EXCEPT !.done = TRUE, !.ok = result.ok]
                                        ELSE @[k]],
                        !.delayed = FALSE]
    IN  IF h1.op.pc = "await" /\ h1.op.awaiting = id
        THEN Continue(h1, result)
        ELSE h1

\* ------------------------------------------------------------------------
\* components/GridForm.tsx: the price ladder
\* ------------------------------------------------------------------------
Max2(a, b) == IF a > b THEN a ELSE b

Abs(a) == IF a < 0 THEN -a ELSE a

RECURSIVE Zeros(_)
Zeros(k) == IF k <= 0 THEN <<>> ELSE <<"0">> \o Zeros(k - 1)

\* text of q / 10^d with exactly d decimals, q >= 0
FixedText(q, d) ==
    LET frac == NatToText(q % Pow10(d))
    IN  IF d = 0 THEN NatToText(q)
        ELSE NatToText(q \div Pow10(d)) \o <<".">> \o Zeros(d - Len(frac)) \o frac

\* level i of the ladder as the fraction num / den in units of 10^-scale
GridLevel(min, max, count, i) ==
    LET scale == Max2(min.s, max.s)
        lo    == min.n * Pow10(scale - min.s)
        hi    == max.n * Pow10(scale - max.s)
    IN  [nan |-> min.nan \/ max.nan, num |-> lo * (count - 1) + i * (hi - lo),
         den |-> count - 1, scale |-> scale]

\* priceLevel.toFixed(decimals), halves rounded away from zero
ToFixed(level, decimals) ==
    LET unit == level.den * Pow10(level.scale)
        q    == (2 * Abs(level.num) * Pow10(decimals) + unit) \div (2 * unit)
    IN  IF level.nan THEN <<"NaN">>
        ELSE IF level.num < 0 /\ q > 0 THEN <<"-">> \o FixedText(q, decimals)
        ELSE FixedText(q, decimals)

\* level - ref as a fraction over level.den * 10^(common scale)
LevelMinusRef(level, ref) ==
    LET scale == Max2(level.scale, ref.s)
    IN  [num   |-> level.num * Pow10(scale - level.scale)
                   - ref.n * Pow10(scale - ref.s) * level.den,
         unit  |-> level.den * Pow10(scale)]

\* Math.abs(priceLevel - ref) < 1 / Math.pow(10, decimals)
NearReference(level, ref, decimals) ==
    /\ ~level.nan
    /\ ~ref.nan
    /\ LET diff == LevelMinusRef(level, ref)
       IN  Abs(diff.num) * Pow10(decimals) < diff.unit

\* variant: the comparison is the other way round
AboveReference(level, ref) ==
    ~level.nan /\ ~ref.nan /\ LevelMinusRef(level, ref).num > 0

\* priceLevel < ref
BelowReference(level, ref) ==
    ~level.nan /\ ~ref.nan /\ LevelMinusRef(level, ref).num < 0

\* the loop of generateGrid for levels i .. count-1
RECURSIVE GridOrders(_, _, _, _, _, _, _)
GridOrders(sym, min, max, count, ref, qty, i) ==
    IF i >= count THEN <<>>
    ELSE LET rules == getSymbolRules(sym)
             level == GridLevel(min, max, count, i)
             order == OrderRequest(sym,
                                   IF BelowReference(level, ref) THEN BUY ELSE SELL,
                                   LIMIT, qty, ToFixed(level, rules.priceDecimals),
                                   Undefined, <<"GTC">>)
             rest  == GridOrders(sym, min, max, count, ref, qty, i + 1)
         IN  IF NearReference(level, ref, rules.priceDecimals)
             THEN rest ELSE <<order>> \o rest

\* generateGrid: the validation error, or the orders handed to onSubmit
generateGrid(sym, minPrice, maxPrice, gridCount, quantityPerGrid, refPrice) ==
    LET error == validateGridInput(sym, minPrice, maxPrice, quantityPerGrid)
        count == ParseInt(gridCount)
    IN  IF error # Null
          THEN [error |-> error, orders |-> <<>>]
        ELSE IF NumLT(count, Dec(2, 0))
          THEN [error |-> "Grid count must be at least 2", orders |-> <<>>]
        ELSE [error |-> Null,
              orders |-> IF count.nan THEN <<>>
                         ELSE GridOrders(sym, ParseFloat(minPrice), ParseFloat(maxPrice),
                                         count.n, ParseFloat(refPrice),
                                         quantityPerGrid, 0)]

\* ------------------------------------------------------------------------
\* services/websocket.ts
\* ------------------------------------------------------------------------
\* A session is the closure of one subscribeToTicker or subscribeToUserData
\* call: active, ws (TRUE when the variable ws / userWs is not null),
\* reconnectTimeout (the delay while the timeout it refers to is armed), the
\* WebSocket objects that can still raise events, and the number of armed
\* reconnect timeouts.  attempt is the parity of the number of calls of
\* new WebSocket, delivered holds the last value handed to the callback, and
\* lastEvent the last parse error, delivery or close after unsubscribe.
NewSession(kind, target, callback) ==
    [kind |-> kind, target |-> target, callback |-> callback,
     active |-> TRUE, ws |-> FALSE, reconnectTimeout |-> NoTimer,
     sockets |-> <<>>, timers |-> 0,
     attempt |-> 0, delivered |-> <<>>, lastEvent |-> "none"]

\* the endpoint the session connects to
Endpoint(s) ==
    IF s.kind = "ticker"
    THEN <<"wss://stream.binancefuture.com/ws/">> \o ToLowerCase(s.target)
           \o <<"@bookTicker">>
    ELSE <<"wss://stream.binancefuture.com/ws/">> \o s.target

\* new WebSocket(endpoint), referred to by ws / userWs
Socket(url) == [url |-> url, state |-> "CONNECTING", isWs |-> TRUE]

\* reconnectTimeout = setTimeout(connect, RECONNECT_DELAY)
ArmReconnect(s) ==
    [s EXCEPT !.timers = @ + 1, !.reconnectTimeout = RECONNECT_DELAY]

\* variant: a constructor that throws is not retried
connectNoRetry(s, throws) ==
    IF ~s.active THEN s
    ELSE IF throws
      THEN [s EXCEPT !.attempt = 1 - @, !.lastEvent = "none"]
    ELSE [s EXCEPT !.attempt = 1 - @,
                   !.lastEvent = "none",
                   !.ws = TRUE,
                   !.sockets = Append([k \in 1..Len(@) |-> [@[k] EXCEPT !.isWs = FALSE]],
                                      Socket(Endpoint(s)))]

\* connect(); throws: the WebSocket constructor throws
connect(s, throws) ==
    IF ~s.active THEN s
    ELSE IF throws
      THEN ArmReconnect([s EXCEPT !.attempt = 1 - @, !.lastEvent = "none"])
    ELSE [s EXCEPT !.attempt = 1 - @,
                   !.lastEvent = "none",
                   !.ws = TRUE,
                   !.sockets = Append([k \in 1..Len(@) |-> [@[k] EXCEPT !.isWs = FALSE]],
                                      Socket(Endpoint(s)))]

\* (bid + ask) / 2 as the fraction num / den in units of 10^-scale
MidPrice(bid, ask) ==
    LET scale == Max2(bid.s, ask.s)
    IN  [nan |-> bid.nan \/ ask.nan,
         num |-> bid.n * Pow10(scale - bid.s) + ask.n * Pow10(scale - ask.s),
         den |-> 2, scale |-> scale]

\* mid < 10 ? mid.toFixed(4) : mid.toFixed(2)
FormatMid(mid) ==
    IF ~mid.nan /\ mid.num < 10 * mid.den * Pow10(mid.scale)
    THEN ToFixed(mid, 4)
    ELSE ToFixed(mid, 2)

\* The event data is [json, e, b, a, o]: json is FALSE when JSON.parse
\* throws, o holds the member o of the message when there is one.
\* What onmessage does with it: throw and catch ("error"), nothing
\* ("ignored"), or hand value to the callback ("deliver").
MessageValue(s, data) ==
    IF ~data.json THEN [kind |-> "error", value |-> <<>>]
    ELSE IF s.kind = "ticker"
      THEN IF data.e = <<"bookTicker">> /\ ~Falsy(data.b) /\ ~Falsy(data.a)
           THEN [kind |-> "deliver",
                 value |-> FormatMid(MidPrice(ParseFloat(data.b), ParseFloat(data.a)))]
           ELSE [kind |-> "ignored", value |-> <<>>]
    ELSE IF data.e = <<"ORDER_TRADE_UPDATE">>
      THEN IF data.o = <<>>
           THEN [kind |-> "error", value |-> <<>>]
           ELSE [kind |-> "deliver",
                 value |-> [symbol |-> data.o[1].s, clientOrderId |-> data.o[1].c,
                            side |-> data.o[1].S, type |-> data.o[1].o,
                            status |-> data.o[1].X, originalQty |-> data.o[1].q,
                            executedQty |-> data.o[1].z, avgPrice |-> data.o[1].ap]]
    ELSE [kind |-> "ignored", value |-> <<>>]

\* ws.onmessage on socket k
onmessage(s, k, data) ==
    LET m == MessageValue(s, data)
    IN  IF m.kind = "error" THEN [s EXCEPT !.lastEvent = "parseError"]
        ELSE IF m.kind = "ignored" THEN [s EXCEPT !.lastEvent = "none"]
        ELSE [s EXCEPT !.delivered = <<m.value>>, !.lastEvent = "delivered"]

\* variant: the close handler reconnects whatever active says
oncloseAlways(s, k) ==
    ArmReconnect([s EXCEPT !.sockets = RemoveAt(@, k), !.lastEvent = "none"])

\* ws.onclose on socket k: the socket raises no more events
onclose(s, k) ==
    IF s.active
    THEN ArmReconnect([s EXCEPT !.sockets = RemoveAt(@, k), !.lastEvent = "none"])
    ELSE [s EXCEPT !.sockets = RemoveAt(@, k), !.lastEvent = "lateClose"]

\* the function returned by subscribeToTicker / subscribeToUserData
cleanup(s) ==
    [s EXCEPT !.active = FALSE,
              !.timers = IF s.reconnectTimeout # NoTimer THEN @ - 1 ELSE @,
              !.reconnectTimeout = NoTimer,
              !.sockets = [k \in 1..Len(@) |->
                             IF s.ws /\ @[k].isWs
                             THEN [@[k] EXCEPT !.state = "CLOSING", !.isWs = FALSE]
                             ELSE @[k]],
              !.ws = FALSE,
              !.lastEvent = "none"]

\* variant: the reconnect timer is an interval, armed still after it fired
reconnectInterval(s, throws) == connect(s, throws)

\* an armed reconnect timeout fires (the oldest one first): connect()
reconnect(s, throws) ==
    connect([s EXCEPT !.timers = @ - 1,
                      !.reconnectTimeout = IF s.timers = 1 THEN NoTimer ELSE @],
            throws)

\* subscribeToTicker(symbol, callback): the sessions after the call
subscribeToTicker(ss, sym, callback, throws) ==
    IF Falsy(sym) THEN ss
    ELSE Append(ss, connect(NewSession("ticker", sym, callback), throws))

\* subscribeToUserData(listenKey, onOrderUpdate): the sessions after the call
subscribeToUserData(ss, listenKey, callback, throws) ==
    Append(ss, connect(NewSession("user", listenKey, callback), throws))

\* ------------------------------------------------------------------------
\* App.tsx: the user-data effect (useEffect on [demoMode, apiKey, addLog])
\* ------------------------------------------------------------------------
\* the closure of one run of the effect: the dependencies it captured, where
\* connectUserData stands, its locals cleanupFn (the session the function
\* belongs to, 0 for undefined) and keepAliveInterval (the period of the
\* armed interval, NoTimer for null or cleared), and whether the function
\* the effect returned has been called
NewUserEffect(isDemo, key) ==
    [demoMode |-> isDemo, apiKey |-> key, pc |-> "idle", awaiting |-> 0,
     cleanupFn |-> 0, keepAliveInterval |-> NoTimer, cleaned |-> FALSE]

\* if (!demoMode && apiKey) connectUserData(): up to the suspension on
\* getListenKey(apiKey)
connectUserData(h, e) ==
    IF ~e.demoMode /\ ~Falsy(e.apiKey)
    THEN LET r == getListenKey(addLog(h, "INFO",
                                      "Initializing Real-time User Data Stream...",
                                      NoDetails),
                               e.apiKey)
         IN  [h |-> r.h, e |-> [e EXCEPT !.pc = "await", !.awaiting = r.id]]
    ELSE [h |-> h, e |-> e]

\* the function the effect returned:
\* if (cleanupFn) cleanupFn(); if (keepAliveInterval) clearInterval(...)
UserEffectCleanup(e) == [e EXCEPT !.keepAliveInterval = NoTimer, !.cleaned = TRUE]

UserSessionsCleanup(ss, e) ==
    IF e.cleanupFn = 0 THEN ss ELSE [ss EXCEPT ![e.cleanupFn] = cleanup(@)]

\* connectUserData after getListenKey resolved: the session is subscribed,
\* 'SUCCESS' is logged and the renewal interval is armed
UserStreamSubscribed(e, ss) ==
    [e EXCEPT !.pc = "connected", !.awaiting = 0, !.cleanupFn = Len(ss) + 1,
              !.keepAliveInterval = KEEP_ALIVE_PERIOD]

\* connectUserData after getListenKey rejected: the catch logs 'ERROR'
UserStreamFailed(e) == [e EXCEPT !.pc = "failed", !.awaiting = 0]

\* variant: a failed renewal is not logged
keepAliveSettledSilent(h, result) ==
    IF result.ok THEN addLog(h, "INFO", "User Stream ListenKey extended", NoDetails)
    ELSE h

\* the interval callback after keepAliveListenKey settled
keepAliveSettled(h, result) ==
    IF result.ok THEN addLog(h, "INFO", "User Stream ListenKey extended", NoDetails)
    ELSE addLog(h, "WARN", "Failed to extend ListenKey", <<result.message>>)

\* ------------------------------------------------------------------------
\* Inputs explored
\* ------------------------------------------------------------------------
Symbols == {BTCUSDT, SOLUSDT}

Keys == {<<>>, <<"k">>}

Secrets == {<<>>, <<"s">>}

Sides == {BUY}

OrderTypes == {MARKET, LIMIT, STOP_LIMIT}

Quantities == {<<"1">>}

Prices == {<<>>, <<"2", ".", "5">>}

StopPrices == {<<"2">>}

GridQuantities == {<<"1">>}

GridMinPrices == {<<"1">>}

GridMaxPrices == {<<"3">>, <<"1", ".", "1">>}

GridCounts == {<<"1">>, <<"3">>}

GridRefPrices == {<<"1", ".", "0", "5">>}

OrderIds == {<<>>, <<"4", "2">>, <<"w", "e", "b", "_", "1">>}

\* HTTP status and exchange message of a response; "" stands for no message
Statuses == {200, 400}

ExchangeMessages == {""}

\* ------------------------------------------------------------------------
\* Actions of the view: settings, tabs, forms
\* ------------------------------------------------------------------------
appVars == <<isLoading, logs, op, calls, delayTimer, fillTimers, requests, attempts,
             delayed>>

settingVars == <<symbol, demoMode, apiKey, apiSecret, currentPrice>>

formVars == <<validationError, evaluation, userEffects>>

streamVars == <<sessions, tickerTimer>>

\* Only one form is mounted (activeTab) and mounting resets its state, so
\* the tab is kept only while the mounted form shows an error.
NoValidationError == [form |-> "any", error |-> Null]

ValidationError(form, error) == [form |-> form, error |-> error]

SetDemoMode(b) ==
    /\ b # demoMode
    /\ demoMode' = b
    /\ UNCHANGED <<streamVars, symbol, apiKey, apiSecret, currentPrice, formVars, appVars>>

SetApiKey(k) ==
    /\ k # apiKey
    /\ apiKey' = k
    /\ UNCHANGED <<streamVars, symbol, demoMode, apiSecret, currentPrice, formVars, appVars>>

SetApiSecret(k) ==
    /\ k # apiSecret
    /\ apiSecret' = k
    /\ UNCHANGED <<streamVars, symbol, demoMode, apiKey, currentPrice, formVars, appVars>>

\* onSymbolChange of the mounted form: setSymbol(value.toUpperCase()).  The
\* form's effect clears validationError; the ticker effect of the view is
\* cleaned up (clearTimeout(handler); subscribeToTicker('', ...), which
\* returns at once) and runs again, arming a new debounce timeout.
SetSymbol(sym) ==
    /\ ToUpperCase(sym) # symbol
    /\ symbol' = ToUpperCase(sym)
    /\ validationError' = NoValidationError
    /\ tickerTimer' = DEBOUNCE_DELAY
    /\ UNCHANGED <<demoMode, apiKey, apiSecret, currentPrice, appVars, sessions, evaluation,
                 userEffects>>

\* an input of the mounted form changes (its effect clears validationError),
\* or setActiveTab mounts another form with fresh state
FormInputChange ==
    /\ validationError # NoValidationError
    /\ validationError' = NoValidationError
    /\ UNCHANGED <<streamVars, settingVars, appVars, evaluation, userEffects>>

\* The form is the mounted one, its submit button is not disabled, and its
\* inputs are not the ones that were just refused: every input in the
\* dependencies of the form's effect clears the error when it changes, so
\* with such an error shown a submit can only repeat it.  gridCount is not
\* among the dependencies of GridForm's effect: its error can stay shown.
CanSubmit(form) ==
    /\ ~isLoading
    /\ \/ validationError.form = "any"
       \/ /\ form = "grid"
          /\ validationError = [form |-> "grid", error |-> "Grid count must be at least 2"]

\* variant: the order is handed to onSubmit whatever the validator says
OrderFormSubmitUnchecked(side, type, quantity, price, stopPrice) ==
    /\ CanSubmit("manual")
    /\ Len(fillTimers) < MaxPendingFills
    /\ Assign(handleOrderSubmit(Handlers,
                 OrderRequest(symbol, side, type, quantity,
                              IF type # MARKET THEN price ELSE Undefined,
                              IF type = STOP_LIMIT THEN stopPrice ELSE Undefined,
                              Undefined)))
    /\ UNCHANGED <<streamVars, settingVars, formVars>>

\* OrderForm.handleSubmit
OrderFormSubmit(side, type, quantity, price, stopPrice) ==
    /\ CanSubmit("manual")
    /\ Len(fillTimers) < MaxPendingFills
    /\ LET order == OrderRequest(symbol, side, type, quantity,
                                 IF type # MARKET THEN price ELSE Undefined,
                                 IF type = STOP_LIMIT THEN stopPrice ELSE Undefined,
                                 Undefined)
           error == validateOrderInput(order)
       IN  IF error # Null
           THEN /\ validationError' = ValidationError("manual", error)
                /\ UNCHANGED appVars
           ELSE /\ Assign(handleOrderSubmit(Handlers, order))
                /\ UNCHANGED validationError
    /\ UNCHANGED <<streamVars, settingVars, evaluation, userEffects>>

\* GridForm.generateGrid
GridFormSubmit(minPrice, maxPrice, gridCount, quantityPerGrid, refPrice) ==
    /\ CanSubmit("grid")
    /\ LET g == generateGrid(symbol, minPrice, maxPrice, gridCount,
                             quantityPerGrid, refPrice)
       IN  IF g.error # Null
           THEN /\ validationError' = ValidationError("grid", g.error)
                /\ UNCHANGED appVars
           ELSE /\ Assign(handleGridSubmit(Handlers, g.orders))
                /\ UNCHANGED validationError
    /\ UNCHANGED <<streamVars, settingVars, evaluation, userEffects>>

\* CancelForm.handleSubmit
CancelFormSubmit(orderId) ==
    /\ CanSubmit("cancel")
    /\ ~Falsy(symbol)
    /\ ~Falsy(orderId)
    /\ Assign(handleCancelSubmit(Handlers, symbol, orderId))
    /\ UNCHANGED <<streamVars, settingVars, formVars>>

\* ------------------------------------------------------------------------
\* Actions of the executor and of the environment
\* ------------------------------------------------------------------------
\* the timeout of mockPlaceOrder / mockCancelOrder fires: the promise resolves
MockTimerFire(k, randomId) ==
    /\ k \in 1..Len(calls)
    /\ calls[k].pc = "mock"
    /\ calls[k].timer # NoTimer
    /\ LET c    == calls[k]
           data == IF c.fn = "placeOrder"
                   THEN MockPlaceOrderResponse(c.order, randomId, Timestamp)
                   ELSE MockCancelOrderResponse(c.order.symbol, c.orderId, randomId, Timestamp)
       IN  Assign(Settle(Handlers, c.id, Resolved(data)))
    /\ UNCHANGED <<streamVars, settingVars, formVars>>

\* hmacSha256 resolves: the signature is appended and the request is sent
SignDone(k) ==
    /\ k \in 1..Len(calls)
    /\ calls[k].pc = "sign"
    /\ LET c         == calls[k]
           signature == hmacSha256(c.creds.apiSecret, c.queryString)
           request   == [call |-> c.id,
                         method |-> IF c.fn = "placeOrder" THEN "POST" ELSE "DELETE",
                         path |-> "/fapi/v1/order",
                         query |-> fullQueryString(c.queryString, signature),
                         apiKeyHeader |-> c.creds.apiKey]
       IN  /\ calls' = [calls EXCEPT ![k].pc = "fetch"]
           /\ requests' = Append(requests, request)
    /\ UNCHANGED <<streamVars, settingVars, formVars, isLoading, logs, op, delayTimer, fillTimers,
                   attempts, delayed>>

\* what the exchange answers to a successful request
ExchangeResponse(c) ==
    CASE c.fn = "placeOrder" ->
           [MockPlaceOrderResponse(c.order, 12345, Timestamp) EXCEPT !.clientOrderId = <<"x">>]
      [] c.fn = "cancelOrder" ->
           [MockCancelOrderResponse(c.order.symbol, c.orderId, 12345, Timestamp)
              EXCEPT !.clientOrderId = <<"x">>]
      [] c.fn = "getListenKey" -> [listenKey |-> <<"l", "k">>]
      [] OTHER -> [orderId |-> 0]

\* the message of the error thrown when the response has no msg
StatusMessage(fn, status) ==
    CASE fn = "getListenKey"       -> "Failed to get listenKey: " \o ToString(status)
      [] fn = "keepAliveListenKey" -> "Failed to keep-alive listenKey: " \o ToString(status)
      [] OTHER                     -> "API Error: " \o ToString(status)

\* the promise of realPlaceOrder / realCancelOrder / getListenKey /
\* keepAliveListenKey after the response
ResponseResult(c, status, msg) ==
    IF status \in 200..299
    THEN Resolved(ExchangeResponse(c))
    ELSE Rejected(MessageOr(msg, StatusMessage(c.fn, status)))

\* the HTTP response arrives and its body parses
FetchRespond(k, status, msg) ==
    /\ k \in 1..Len(calls)
    /\ calls[k].pc = "fetch"
    /\ Assign(Settle(Handlers, calls[k].id, ResponseResult(calls[k], status, msg)))
    /\ UNCHANGED <<streamVars, settingVars, formVars>>

\* the HTTP response arrives and its body is not JSON: response.json()
\* rejects before response.ok is looked at
FetchRespondNotJson(k, status) ==
    /\ k \in 1..Len(calls)
    /\ calls[k].pc = "fetch"
    /\ Assign(Settle(Handlers, calls[k].id,
                     Rejected("Unexpected token < in JSON at position 0")))
    /\ UNCHANGED <<streamVars, settingVars, formVars>>

\* fetch rejects (transport failure)
FetchFail(k) ==
    /\ k \in 1..Len(calls)
    /\ calls[k].pc = "fetch"
    /\ Assign(Settle(Handlers, calls[k].id, Rejected("Failed to fetch")))
    /\ UNCHANGED <<streamVars, settingVars, formVars>>

\* the inter-order timeout of handleGridSubmit fires: next iteration
DelayTimerFire ==
    /\ delayTimer # NoTimer
    /\ op.pc = "delay"
    /\ Assign(GridLoop([Handlers EXCEPT !.delayTimer = NoTimer, !.delayed = TRUE]))
    /\ UNCHANGED <<streamVars, settingVars, formVars>>

\* the timeout set by handleOrderSubmit in demo mode fires; the timeouts
\* have the same delay, so they fire in the order they were set
FillTimerFire(k) ==
    /\ k = 1
    /\ k \in 1..Len(fillTimers)
    /\ fillTimers[k].timer # NoTimer
    /\ logs' = Append(logs, [level |-> "SUCCESS",
                             message |-> "(Simulated) Order Update: FILLED",
                             details |-> [price |-> fillTimers[k].price]])
    /\ fillTimers' = RemoveAt(fillTimers, k)
    /\ UNCHANGED <<streamVars, settingVars, formVars, isLoading, op, calls, delayTimer, requests,
                   attempts, delayed>>

\* --- stream sessions ----------------------------------------------------
\* what the callback of session s does with a delivered value
CallbackPrice(s) ==
    IF s.callback = "setCurrentPrice" /\ s.lastEvent = "delivered"
    THEN s.delivered[1]
    ELSE currentPrice

\* a caller subscribes to the ticker of a symbol
SubscribeToTicker(sym, throws) ==
    /\ Len(sessions) < MaxSessions
    /\ ~Falsy(sym)
    /\ sessions' = subscribeToTicker(sessions, sym, "callback", throws)
    /\ UNCHANGED <<settingVars, formVars, appVars, tickerTimer>>

\* a caller subscribes to the user data of a listen key
SubscribeToUserData(listenKey, throws) ==
    /\ Len(sessions) < MaxSessions
    /\ sessions' = subscribeToUserData(sessions, listenKey, "callback", throws)
    /\ UNCHANGED <<settingVars, formVars, appVars, tickerTimer>>

\* the caller calls the function the subscription returned
Unsubscribe(i) ==
    /\ i \in 1..Len(sessions)
    /\ sessions' = [sessions EXCEPT ![i] = cleanup(@)]
    /\ sessions' # sessions
    /\ UNCHANGED <<settingVars, formVars, appVars, tickerTimer>>

\* the connection of socket k of session i is established
SocketOpen(i, k) ==
    /\ i \in 1..Len(sessions)
    /\ k \in 1..Len(sessions[i].sockets)
    /\ sessions[i].sockets[k].state = "CONNECTING"
    /\ sessions' = [sessions EXCEPT ![i].sockets[k].state = "OPEN", ![i].lastEvent = "none"]
    /\ UNCHANGED <<settingVars, formVars, appVars, tickerTimer>>

\* a message arrives on socket k of session i
SocketMessage(i, k, data) ==
    /\ i \in 1..Len(sessions)
    /\ k \in 1..Len(sessions[i].sockets)
    /\ sessions[i].sockets[k].state = "OPEN"
    /\ sessions' = [sessions EXCEPT ![i] = onmessage(@, k, data)]
    /\ currentPrice' = CallbackPrice(sessions'[i])
    /\ UNCHANGED <<symbol, demoMode, apiKey, apiSecret, formVars, appVars, tickerTimer>>

\* socket k of session i closes: the connection failed or was lost, or
\* close() was called on it
SocketClose(i, k) ==
    /\ i \in 1..Len(sessions)
    /\ k \in 1..Len(sessions[i].sockets)
    /\ sessions' = [sessions EXCEPT ![i] = onclose(@, k)]
    /\ UNCHANGED <<settingVars, formVars, appVars, tickerTimer>>

\* a reconnect timeout of session i fires
ReconnectTimerFire(i, throws) ==
    /\ i \in 1..Len(sessions)
    /\ sessions[i].timers > 0
    /\ sessions' = [sessions EXCEPT ![i] = reconnect(@, throws)]
    /\ UNCHANGED <<settingVars, formVars, appVars, tickerTimer>>

\* variant: the timeout callback subscribes whatever the length of the symbol
TickerTimerFireAnyLength(throws) ==
    /\ tickerTimer # NoTimer
    /\ Len(sessions) < MaxTickerSessions
    /\ tickerTimer' = NoTimer
    /\ sessions' = subscribeToTicker(sessions, symbol, "setCurrentPrice", throws)
    /\ UNCHANGED <<settingVars, formVars, appVars>>

\* the debounce timeout of the ticker effect fires; what subscribeToTicker
\* returns is returned by the timeout callback, to nobody
TickerTimerFire(throws) ==
    /\ tickerTimer # NoTimer
    /\ Len(sessions) < MaxTickerSessions
    /\ tickerTimer' = NoTimer
    /\ sessions' = IF Len(symbol) >= 3
                   THEN subscribeToTicker(sessions, symbol, "setCurrentPrice", throws)
                   ELSE sessions
    /\ UNCHANGED <<settingVars, formVars, appVars>>

\* --- the user-data effect of the view -----------------------------------
\* a dependency of the effect changes while the view is mounted: the
\* function the last run returned is called, then the effect runs again
UserEffectRerun(isDemo, key) ==
    LET last == Len(userEffects)
        r    == connectUserData(Handlers, NewUserEffect(isDemo, key))
    IN  /\ Len(userEffects) < MaxUserEffects
        /\ ~userEffects[last].cleaned
        /\ sessions' = UserSessionsCleanup(sessions, userEffects[last])
        /\ userEffects' = Append([userEffects EXCEPT ![last] = UserEffectCleanup(@)], r.e)
        /\ Assign(r.h)

\* the mode toggle is clicked: setDemoMode(!demoMode), and the effect that
\* depends on demoMode
DemoModeChange(b) ==
    /\ b # demoMode
    /\ demoMode' = b
    /\ UserEffectRerun(b, apiKey)
    /\ UNCHANGED <<symbol, apiKey, apiSecret, currentPrice, validationError, evaluation,
                   tickerTimer>>

\* the API key field is edited: setApiKey(value), and the effect that
\* depends on apiKey
ApiKeyChange(k) ==
    /\ k # apiKey
    /\ apiKey' = k
    /\ UserEffectRerun(demoMode, k)
    /\ UNCHANGED <<symbol, demoMode, apiSecret, currentPrice, validationError, evaluation,
                   tickerTimer>>

\* the view is torn down: the function the last run returned is called
UnmountView ==
    /\ ~userEffects[Len(userEffects)].cleaned
    /\ sessions' = UserSessionsCleanup(sessions, userEffects[Len(userEffects)])
    /\ userEffects' = [userEffects EXCEPT ![Len(userEffects)] = UserEffectCleanup(@)]
    /\ UNCHANGED <<settingVars, appVars, validationError, evaluation, tickerTimer>>

\* the promise of getListenKey / keepAliveListenKey of call k settles: the
\* run of the effect awaiting the token goes on (whether or not its cleanup
\* has run), the interval callback awaiting the renewal logs the outcome
UserFetchSettled(k, result) ==
    LET c  == calls[k]
        h1 == Settle(Handlers, c.id, result)
    IN  IF c.fn = "getListenKey"
        THEN \E i \in 1..Len(userEffects) :
               /\ userEffects[i].pc = "await"
               /\ userEffects[i].awaiting = c.id
               /\ IF result.ok
                  THEN /\ sessions' = subscribeToUserData(sessions, result.data.listenKey,
                                                          "addLog", FALSE)
                       /\ userEffects' = [userEffects EXCEPT
                                            ![i] = UserStreamSubscribed(@, sessions)]
                       /\ Assign(addLog(h1, "SUCCESS", "User Data Stream Connected",
                                        NoDetails))
                  ELSE /\ sessions' = sessions
                       /\ userEffects' = [userEffects EXCEPT ![i] = UserStreamFailed(@)]
                       /\ Assign(addLog(h1, "ERROR",
                                        "Failed to connect to User Stream. Check API Key/Network.",
                                        <<result.message>>))
        ELSE /\ Assign(keepAliveSettled(h1, result))
             /\ UNCHANGED <<sessions, userEffects>>

\* the response to a listenKey request arrives
UserFetchRespond(k, status, msg) ==
    /\ k \in 1..Len(calls)
    /\ calls[k].pc = "fetch"
    /\ calls[k].fn \in {"getListenKey", "keepAliveListenKey"}
    /\ UserFetchSettled(k, ResponseResult(calls[k], status, msg))
    /\ UNCHANGED <<settingVars, validationError, evaluation, tickerTimer>>

\* fetch of a listenKey request rejects (transport failure)
UserFetchFail(k) ==
    /\ k \in 1..Len(calls)
    /\ calls[k].pc = "fetch"
    /\ calls[k].fn \in {"getListenKey", "keepAliveListenKey"}
    /\ UserFetchSettled(k, Rejected("Failed to fetch"))
    /\ UNCHANGED <<settingVars, validationError, evaluation, tickerTimer>>

\* renewals requested so far
Renewals ==
    Cardinality({a \in 1..Len(attempts) : attempts[a].fn = "keepAliveListenKey"})

\* the renewal interval of run i of the effect fires:
\* await keepAliveListenKey(apiKey).  The period is 50 minutes: the renewal
\* requested at the previous firing has settled by then.
KeepAliveTimerFire(i) ==
    /\ i \in 1..Len(userEffects)
    /\ userEffects[i].keepAliveInterval # NoTimer
    /\ Renewals < MaxRenewals
    /\ \A k \in 1..Len(calls) : calls[k].fn # "keepAliveListenKey"
    /\ Assign(keepAliveListenKey(Handlers, userEffects[i].apiKey).h)
    /\ UNCHANGED <<streamVars, settingVars, formVars>>

\* ------------------------------------------------------------------------
\* Specification of the view with its three forms
\* ------------------------------------------------------------------------
vars == <<symbol, demoMode, apiKey, apiSecret, isLoading, logs, currentPrice,
          validationError, op, calls, delayTimer, fillTimers,
          requests, attempts, delayed, sessions, tickerTimer, evaluation,
          userEffects>>

\* no pure function is under evaluation
NoEvaluation == [fn |-> "none"]

\* the view after construction
InitApp ==
    /\ symbol = BTCUSDT
    /\ demoMode = TRUE
    /\ apiKey = <<>>
    /\ apiSecret = <<>>
    /\ isLoading = FALSE
    /\ logs = <<>>
    /\ currentPrice = Undefined      \* null: kept as the other falsy text
    /\ validationError = NoValidationError
    /\ op = NoOp
    /\ calls = <<>>
    /\ delayTimer = NoTimer
    /\ fillTimers = <<>>
    /\ requests = <<>>
    /\ attempts = <<>>
    /\ delayed = FALSE
    /\ sessions = <<>>
    /\ tickerTimer = DEBOUNCE_DELAY
    /\ userEffects = <<NewUserEffect(TRUE, <<>>)>>

Init == InitApp /\ evaluation = NoEvaluation

Next ==
    \/ \E b \in BOOLEAN : SetDemoMode(b)
    \/ \E k \in Keys : SetApiKey(k)
    \/ \E k \in Secrets : SetApiSecret(k)
    \/ FormInputChange
    \/ \E side \in Sides, type \in OrderTypes, quantity \in Quantities,
          price \in Prices, stopPrice \in StopPrices :
          OrderFormSubmit(side, type, quantity, price, stopPrice)
    \/ \E minPrice \in GridMinPrices, maxPrice \in GridMaxPrices,
          gridCount \in GridCounts, quantity \in GridQuantities,
          refPrice \in GridRefPrices :
          GridFormSubmit(minPrice, maxPrice, gridCount, quantity, refPrice)
    \/ \E orderId \in OrderIds : CancelFormSubmit(orderId)
    \/ \E k \in 1..Len(calls), randomId \in RandomIds : MockTimerFire(k, randomId)
    \/ \E k \in 1..Len(calls) : SignDone(k)
    \/ \E k \in 1..Len(calls), status \in Statuses, msg \in ExchangeMessages :
          FetchRespond(k, status, msg)
    \/ \E k \in 1..Len(calls) : FetchFail(k)
    \/ DelayTimerFire
    \/ \E k \in 1..Len(fillTimers) : FillTimerFire(k)

Spec == Init /\ [][Next]_vars

\* The view with what its handlers wait for coming about: an armed timeout
\* fires, the digest of the signature is computed, and fetch settles (the
\* response arrives or the request fails).
LoadingFairness ==
    /\ WF_vars(\E k \in 1..Len(calls), randomId \in RandomIds : MockTimerFire(k, randomId))
    /\ WF_vars(\E k \in 1..Len(calls) : SignDone(k))
    /\ WF_vars(\E k \in 1..Len(calls) :
                  \/ \E status \in Statuses, msg \in ExchangeMessages :
                        FetchRespond(k, status, msg)
                  \/ FetchFail(k))
    /\ WF_vars(DelayTimerFire)

SpecLoading == Spec /\ LoadingFairness

\* ------------------------------------------------------------------------
\* Properties of the view
\* ------------------------------------------------------------------------
\* C1: in a grid dispatch the submissions are strictly serialized: an order
\* is handed to placeOrder only when every earlier placeOrder of the batch
\* has resolved or rejected, so at most one submission is in flight.
C1_GridSerialized ==
    op.kind = "grid" =>
        /\ Len(calls) <= 1
        /\ \A k \in 1..Len(attempts) : k < Len(attempts) => attempts[k].done

\* the second order of a batch is in flight, the first one is settled
C1_Witness ==
    /\ op.kind = "grid"
    /\ Len(attempts) = 2
    /\ attempts[1].done
    /\ ~attempts[2].done
    /\ Len(calls) = 1

\* C2: in a grid dispatch of N orders every order is attempted exactly
\* once and in input order, whatever fails; when the dispatch completes
\* all N were attempted, successCount + failCount = N, and failCount is
\* the number of rejected submissions.
C2_GridAttemptsAll ==
    op.kind = "grid" =>
        /\ Len(attempts) <= Len(op.orders)
        /\ \A k \in 1..Len(attempts) : attempts[k].index = k
        /\ op.outcome = "complete" =>
              /\ Len(attempts) = Len(op.orders)
              /\ \A k \in 1..Len(attempts) : attempts[k].done
              /\ op.successCount + op.failCount = Len(op.orders)
              /\ op.failCount = Cardinality({k \in 1..Len(attempts) : ~attempts[k].ok})
              /\ \E k \in 1..Len(logs) :
                    /\ logs[k].message = "Grid Deployment Complete"
                    /\ logs[k].details = [success |-> op.successCount,
                                          failed |-> op.failCount]

\* a batch completed although its first submission was rejected
C2_Witness ==
    /\ op.kind = "grid"
    /\ op.outcome = "complete"
    /\ Len(op.orders) >= 2
    /\ ~attempts[1].ok
    /\ op.failCount >= 1
    /\ op.successCount >= 1

\* C3: in a grid dispatch the inter-order delay elapses between every two
\* consecutive submission attempts, whether the earlier one succeeded or
\* failed.
C3_DelayBetweenAttempts ==
    op.kind = "grid" =>
        \A k \in 2..Len(attempts) : attempts[k].afterDelay

\* C7: in live mode with the key or the secret empty, a single order, a
\* cancel and a grid dispatch end with the credential error, with no
\* order attempted and no request issued; in simulated mode empty
\* credentials block nothing.
C7_CredentialGate ==
    /\ (op.kind \in {"order", "cancel", "grid"}
          /\ ~op.demoMode
          /\ (Falsy(op.creds.apiKey) \/ Falsy(op.creds.apiSecret)))
        => /\ op.outcome = "credentials"
           /\ attempts = <<>>
           /\ calls = <<>>
           /\ requests = <<>>
           /\ ~isLoading
           /\ \E k \in 1..Len(logs) :
                 /\ logs[k].level = "ERROR"
                 /\ logs[k].message = "API Key and Secret required for Live Mode"
    /\ (op.kind \in {"order", "cancel", "grid"} /\ op.demoMode)
        => /\ op.outcome \in {"running", "complete"}
           /\ op.orders # <<>> => attempts # <<>>
    /\ \A k \in 1..Len(requests) : ~Falsy(requests[k].apiKeyHeader)
    /\ \A k \in 1..Len(calls) :
          calls[k].pc # "mock" => ~Falsy(calls[k].creds.apiKey) /\ ~Falsy(calls[k].creds.apiSecret)

\* a live grid of several orders was refused for its empty secret
C7_Witness ==
    /\ op.kind = "grid"
    /\ op.outcome = "credentials"
    /\ ~Falsy(op.creds.apiKey)
    /\ Falsy(op.creds.apiSecret)
    /\ Len(op.orders) >= 2

\* the single-order inputs that validateOrderInput refuses
InvalidOrderInputs ==
    {inp \in {<<sym, side, type, quantity, price, stopPrice>> :
                sym \in Symbols, side \in Sides, type \in OrderTypes,
                quantity \in Quantities, price \in Prices, stopPrice \in StopPrices} :
       validateOrderInput(
           [symbol |-> inp[1], side |-> inp[2], type |-> inp[3], quantity |-> inp[4],
            price |-> IF inp[3] # MARKET THEN inp[5] ELSE Undefined,
            stopPrice |-> IF inp[3] = STOP_LIMIT THEN inp[6] ELSE Undefined,
            timeInForce |-> Undefined]) # Null}

\* the grid inputs that validateGridInput refuses or that ask for less
\* than 2 levels
InvalidGridInputs ==
    {inp \in {<<sym, minPrice, maxPrice, gridCount, quantity, refPrice>> :
                sym \in Symbols, minPrice \in GridMinPrices, maxPrice \in GridMaxPrices,
                gridCount \in GridCounts, quantity \in GridQuantities,
                refPrice \in GridRefPrices} :
       \/ validateGridInput(inp[1], inp[2], inp[3], inp[5]) # Null
       \/ NumLT(ParseInt(inp[4]), Dec(2, 0))}

\* placeOrder is called or a request is issued in the step
SubmissionStarted ==
    \/ attempts' # attempts /\ attempts' # <<>>
    \/ requests' # requests /\ requests' # <<>>
    \/ calls' # calls
    \/ op' # op

ExecSymbols == {BTCUSDT, <<"b", "t", "c", "u", "s", "d", "t">>}

ExecPrices == {Undefined, <<>>, <<"2", ".", "5">>}

ExecStopPrices == {Undefined, <<"2">>}

ExecMessages == {"", "Margin is insufficient."}

ExecStatuses == {200, 400, 502}

ExecOrderIds == {<<"4", "2">>, <<"w", "e", "b", "_", "1">>, <<"-", "4">>,
                 <<"4", ".", "2">>, <<"4", " ", "2">>, <<>>}

\* a caller awaits placeOrder(isDemo, order, creds)
CallPlaceOrder(isDemo, sym, side, type, quantity, price, stopPrice, key, secret) ==
    /\ op.pc = "idle"
    /\ Assign(DirectPlaceOrder(Handlers, isDemo,
                               OrderRequest(sym, side, type, quantity, price, stopPrice,
                                            Undefined),
                               Credentials(key, secret)))
    /\ UNCHANGED <<streamVars, settingVars, formVars>>

\* a caller awaits cancelOrder(isDemo, symbol, orderId, creds)
CallCancelOrder(isDemo, sym, orderId, key, secret) ==
    /\ op.pc = "idle"
    /\ Assign(DirectCancelOrder(Handlers, isDemo, sym, orderId, Credentials(key, secret)))
    /\ UNCHANGED <<streamVars, settingVars, formVars>>

\* a caller awaits getListenKey(apiKey) or keepAliveListenKey(apiKey)
CallListenKey(renew, key) ==
    /\ op.pc = "idle"
    /\ Assign(DirectListenKey(Handlers, renew, key))
    /\ UNCHANGED <<streamVars, settingVars, formVars>>

NextExec ==
    \/ \E isDemo \in BOOLEAN, sym \in ExecSymbols, side \in Sides, type \in OrderTypes,
          quantity \in Quantities, price \in ExecPrices, stopPrice \in ExecStopPrices,
          key \in Keys, secret \in Secrets :
          CallPlaceOrder(isDemo, sym, side, type, quantity, price, stopPrice, key, secret)
    \/ \E isDemo \in BOOLEAN, sym \in ExecSymbols, orderId \in ExecOrderIds,
          key \in Keys, secret \in Secrets :
          CallCancelOrder(isDemo, sym, orderId, key, secret)
    \/ \E renew \in BOOLEAN, key \in Keys : CallListenKey(renew, key)
    \/ \E k \in 1..Len(calls), randomId \in RandomIds : MockTimerFire(k, randomId)
    \/ \E k \in 1..Len(calls) : SignDone(k)
    \/ \E k \in 1..Len(calls), status \in ExecStatuses, msg \in ExecMessages :
          FetchRespond(k, status, msg)
    \/ \E k \in 1..Len(calls), status \in ExecStatuses : FetchRespondNotJson(k, status)
    \/ \E k \in 1..Len(calls) : FetchFail(k)

SpecExec == Init /\ [][NextExec]_vars

\* ------------------------------------------------------------------------
\* Specification of the stream sessions used directly (services/websocket.ts)
\* ------------------------------------------------------------------------
StreamSymbols == {BTCUSDT, <<"e", "t", "h", "u", "s", "d", "t">>}

ListenKeys == {<<"l", "k">>}

NoOrderUpdate == <<>>

OrderUpdateData ==
    <<[s |-> BTCUSDT, c |-> <<"web_1">>, S |-> BUY, o |-> LIMIT, X |-> <<"FILLED">>,
       q |-> <<"1">>, z |-> <<"1">>, ap |-> <<"2", ".", "5">>]>>

\* event data: not JSON, a book ticker, an order update with and without
\* its member o, another event
Messages ==
    { [json |-> FALSE, e |-> Undefined, b |-> Undefined, a |-> Undefined,
       o |-> NoOrderUpdate],
      [json |-> TRUE, e |-> <<"bookTicker">>, b |-> <<"1">>, a |-> <<"2">>,
       o |-> NoOrderUpdate],
      [json |-> TRUE, e |-> <<"bookTicker">>, b |-> <<"1", "0">>,
       a |-> <<"1", "1", ".", "0", "1">>, o |-> NoOrderUpdate],
      [json |-> TRUE, e |-> <<"ORDER_TRADE_UPDATE">>, b |-> Undefined, a |-> Undefined,
       o |-> OrderUpdateData],
      [json |-> TRUE, e |-> <<"ORDER_TRADE_UPDATE">>, b |-> Undefined, a |-> Undefined,
       o |-> NoOrderUpdate],
      [json |-> TRUE, e |-> <<"ACCOUNT_UPDATE">>, b |-> Undefined, a |-> Undefined,
       o |-> NoOrderUpdate] }

SessionEvents(messages) ==
    \/ \E i \in 1..Len(sessions) : \E k \in 1..Len(sessions[i].sockets) :
          SocketOpen(i, k)
    \/ \E i \in 1..Len(sessions) : \E k \in 1..Len(sessions[i].sockets) :
          \E data \in messages : SocketMessage(i, k, data)
    \/ \E i \in 1..Len(sessions) : \E k \in 1..Len(sessions[i].sockets) :
          SocketClose(i, k)
    \/ \E i \in 1..Len(sessions), throws \in BOOLEAN : ReconnectTimerFire(i, throws)

NextStream ==
    \/ \E sym \in StreamSymbols, throws \in BOOLEAN : SubscribeToTicker(sym, throws)
    \/ \E listenKey \in ListenKeys, throws \in BOOLEAN :
          SubscribeToUserData(listenKey, throws)
    \/ \E i \in 1..Len(sessions) : Unsubscribe(i)
    \/ SessionEvents(Messages)

SpecStream == Init /\ [][NextStream]_vars

\* an armed timeout fires
StreamFairness ==
    \A i \in 1..MaxSessions :
        WF_vars(\E throws \in BOOLEAN : ReconnectTimerFire(i, throws))

SpecStreamFair == SpecStream /\ StreamFairness

\* ------------------------------------------------------------------------
\* Properties of the stream sessions
\* ------------------------------------------------------------------------
\* the session has a socket that is connecting or open
HasLiveSocket(s) ==
    \E k \in 1..Len(s.sockets) : s.sockets[k].state \in {"CONNECTING", "OPEN"}

\* C4: once the function returned by subscribeToTicker or
\* subscribeToUserData has been called, in whatever state, active stays
\* false for ever, the pending reconnect timer is cancelled and no
\* WebSocket is created for the session any more, also when the close
\* event of its socket fires after the call.
C4_UnsubscribeIsFinal ==
    /\ [](\A i \in 1..Len(sessions) :
             ~sessions[i].active =>
                 /\ sessions[i].timers = 0
                 /\ sessions[i].reconnectTimeout = NoTimer
                 /\ ~sessions[i].ws
                 /\ ~HasLiveSocket(sessions[i]))
    /\ [][\A i \in 1..Len(sessions) :
             ~sessions[i].active =>
                 /\ ~sessions'[i].active
                 /\ sessions'[i].attempt = sessions[i].attempt
                 /\ Len(sessions'[i].sockets) <= Len(sessions[i].sockets)
                 /\ sessions'[i].timers = 0]_vars

\* the close event of a socket fired after the unsubscribe, nothing followed
C4_Witness ==
    \E i \in 1..Len(sessions) :
        /\ ~sessions[i].active
        /\ sessions[i].lastEvent = "lateClose"
        /\ sessions[i].sockets = <<>>
        /\ sessions[i].timers = 0

\* C5: while a session is active, every unexpected close and every failed
\* connection attempt arms the 3000 ms timer, which leads to a new
\* connection attempt, again and again; a message that fails to parse
\* leaves the socket open and the session as it was.
C5_ReconnectsForever ==
    /\ [](\A i \in 1..Len(sessions) :
             (sessions[i].active /\ ~HasLiveSocket(sessions[i])) =>
                 /\ sessions[i].timers = 1
                 /\ sessions[i].reconnectTimeout = 3000)
    /\ \A i \in 1..MaxSessions, b \in {0, 1} :
          (/\ i <= Len(sessions)
           /\ sessions[i].active
           /\ sessions[i].timers > 0
           /\ sessions[i].attempt = b)
          ~> (/\ i <= Len(sessions)
              /\ (~sessions[i].active \/ sessions[i].attempt # b))
    /\ [][\A i \in 1..Len(sessions) : \A k \in 1..Len(sessions[i].sockets) :
             \A data \in Messages :
                 (/\ MessageValue(sessions[i], data).kind = "error"
                  /\ SocketMessage(i, k, data))
                 => /\ sessions'[i].sockets = sessions[i].sockets
                    /\ sessions'[i].sockets[k].state = "OPEN"
                    /\ sessions'[i].active = sessions[i].active
                    /\ sessions'[i].timers = sessions[i].timers
                    /\ sessions'[i].delivered = sessions[i].delivered]_vars

\* a session that has connected more than once delivers a value
C5_Witness ==
    \E i \in 1..Len(sessions) :
        /\ sessions[i].active
        /\ sessions[i].attempt = 0
        /\ HasLiveSocket(sessions[i])
        /\ sessions[i].lastEvent = "delivered"
        /\ sessions[i].delivered # <<>>

\* ------------------------------------------------------------------------
\* Specification of the ticker effect of the view (App.tsx)
\* ------------------------------------------------------------------------
TickerSymbols == {BTCUSDT, ETHUSDT, <<"B", "T">>}

\* event data of a book ticker stream: not JSON, a book ticker
TickerMessages ==
    { [json |-> FALSE, e |-> Undefined, b |-> Undefined, a |-> Undefined,
       o |-> NoOrderUpdate],
      [json |-> TRUE, e |-> <<"bookTicker">>, b |-> <<"1">>, a |-> <<"2">>,
       o |-> NoOrderUpdate] }

NextTicker ==
    \/ \E sym \in TickerSymbols : SetSymbol(sym)
    \/ \E throws \in BOOLEAN : TickerTimerFire(throws)
    \/ SessionEvents(TickerMessages)

SpecTicker == Init /\ [][NextTicker]_vars

\* ------------------------------------------------------------------------
\* Properties of the ticker effect
\* ------------------------------------------------------------------------
\* C6: when the selected symbol changes, the ticker session opened for the
\* previous symbol is destroyed, so that every active ticker session is
\* one of the selected symbol and at most one ticker session is active.
C6_PreviousTickerDestroyed ==
    /\ \A i \in 1..Len(sessions) :
          (sessions[i].kind = "ticker" /\ sessions[i].active)
              => sessions[i].target = symbol
    /\ Cardinality({i \in 1..Len(sessions) :
                       sessions[i].kind = "ticker" /\ sessions[i].active}) <= 1

\* ------------------------------------------------------------------------
\* Specification of the grid generator applied to the fields of the form
\* (components/GridForm.tsx)
\* ------------------------------------------------------------------------
LadderSymbols == {BTCUSDT, SOLUSDT}

LadderMinPrices == {<<"1">>, <<"1", ".", "9">>, <<"1", "e", "-", "2">>}

LadderMaxPrices == {<<"3">>, <<"2", ".", "1">>}

LadderCounts == {<<"1">>, <<"2">>, <<"3">>, <<"5">>, <<"6">>}

LadderQuantities == {<<"1">>}

LadderRefPrices == {<<"2">>, <<"2", ".", "0", "9">>, <<"3">>}

\* the fields of the form when generateGrid is about to run
GridFormFields(sym, minPrice, maxPrice, gridCount, quantityPerGrid, refPrice) ==
    [fn |-> "generateGrid", pc |-> "args", symbol |-> sym,
     minPrice |-> minPrice, maxPrice |-> maxPrice, gridCount |-> gridCount,
     quantityPerGrid |-> quantityPerGrid, refPrice |-> refPrice,
     error |-> Null, orders |-> <<>>]

InitGrid ==
    /\ InitApp
    /\ evaluation \in {GridFormFields(sym, minPrice, maxPrice, gridCount, quantity, refPrice) :
                          sym \in LadderSymbols, minPrice \in LadderMinPrices,
                          maxPrice \in LadderMaxPrices, gridCount \in LadderCounts,
                          quantity \in LadderQuantities, refPrice \in LadderRefPrices}

\* generateGrid runs on the fields: the validation error it sets, or the
\* orders it hands to onSubmit
ApplyGenerateGrid ==
    /\ evaluation.fn = "generateGrid"
    /\ evaluation.pc = "args"
    /\ evaluation' = [evaluation EXCEPT
                        !.pc = "done",
                        !.error = generateGrid(evaluation.symbol, evaluation.minPrice,
                                               evaluation.maxPrice, evaluation.gridCount,
                                               evaluation.quantityPerGrid,
                                               evaluation.refPrice).error,
                        !.orders = generateGrid(evaluation.symbol, evaluation.minPrice,
                                                evaluation.maxPrice, evaluation.gridCount,
                                                evaluation.quantityPerGrid,
                                                evaluation.refPrice).orders]
    /\ UNCHANGED <<streamVars, settingVars, appVars, validationError, userEffects>>

NextGrid == ApplyGenerateGrid

SpecGrid == InitGrid /\ [][NextGrid]_vars

\* ------------------------------------------------------------------------
\* Specification of the validator applied to an order (utils/validator.ts)
\* ------------------------------------------------------------------------
CheckedSymbols == {BTCUSDT, SOLUSDT, <<"x", "y", "z">>}

CheckedQuantities == {Undefined, <<>>, <<"a", "b", "c">>, <<"1">>,
                      <<"0", ".", "0", "0", "0", "5">>, <<"0", ".", "0", "0", "1", "0">>,
                      <<"0", ".", "0", "0", "1", "1">>}

CheckedPrices == {Undefined, <<>>, <<"x">>, <<"2", ".", "5">>, <<"0", ".", "0", "0", "0", "0">>,
                  <<"2", ".", "5", "5", "5", "5">>, <<"2", ".", "5", "0">>}

CheckedStopPrices == {Undefined, <<"2">>, <<"0">>, <<"-", "1", ".", "5", "5", "5", "5">>}

\* the order handed to validateOrderInput
OrderUnderCheck(sym, type, quantity, price, stopPrice) ==
    [fn |-> "validateOrderInput", pc |-> "args",
     order |-> OrderRequest(sym, BUY, type, quantity, price, stopPrice, Undefined),
     error |-> Null]

InitValidate ==
    /\ InitApp
    /\ evaluation \in {OrderUnderCheck(sym, type, quantity, price, stopPrice) :
                          sym \in CheckedSymbols, type \in OrderTypes,
                          quantity \in CheckedQuantities, price \in CheckedPrices,
                          stopPrice \in CheckedStopPrices}

\* validateOrderInput runs on the order
ApplyValidateOrderInput ==
    /\ evaluation.fn = "validateOrderInput"
    /\ evaluation.pc = "args"
    /\ evaluation' = [evaluation EXCEPT !.pc = "done",
                                        !.error = validateOrderInput(evaluation.order)]
    /\ UNCHANGED <<streamVars, settingVars, appVars, validationError, userEffects>>

NextValidate == ApplyValidateOrderInput

SpecValidate == InitValidate /\ [][NextValidate]_vars

\* ------------------------------------------------------------------------
\* Specification of the validator applied to grid parameters
\* (utils/validator.ts)
\* ------------------------------------------------------------------------
RangeMinPrices == {<<>>, <<"a", "b", "c">>, <<"1">>, <<"0">>, <<"-", "1">>,
                   <<"1", ".", "5", "5", "5", "5">>, <<"3">>}

RangeMaxPrices == {<<>>, <<"a", "b", "c">>, <<"2">>, <<"2", ".", "5", "5", "5", "5">>, <<"1">>}

RangeQuantities == {<<>>, <<"a", "b", "c">>, <<"1">>, <<"0", ".", "0", "0", "0", "5">>,
                    <<"0", ".", "0", "0", "1", "0">>}

\* the parameters handed to validateGridInput
RangeUnderCheck(sym, minPrice, maxPrice, quantity) ==
    [fn |-> "validateGridInput", pc |-> "args", symbol |-> sym,
     minPrice |-> minPrice, maxPrice |-> maxPrice, quantity |-> quantity,
     error |-> Null]

InitRange ==
    /\ InitApp
    /\ evaluation \in {RangeUnderCheck(sym, minPrice, maxPrice, quantity) :
                          sym \in LadderSymbols, minPrice \in RangeMinPrices,
                          maxPrice \in RangeMaxPrices, quantity \in RangeQuantities}

\* validateGridInput runs on the parameters
ApplyValidateGridInput ==
    /\ evaluation.fn = "validateGridInput"
    /\ evaluation.pc = "args"
    /\ evaluation' = [evaluation EXCEPT
                        !.pc = "done",
                        !.error = validateGridInput(evaluation.symbol, evaluation.minPrice,
                                                    evaluation.maxPrice, evaluation.quantity)]
    /\ UNCHANGED <<streamVars, settingVars, appVars, validationError, userEffects>>

NextRange == ApplyValidateGridInput

SpecRange == InitRange /\ [][NextRange]_vars

\* ------------------------------------------------------------------------
\* Specification of the user-data effect of the view (App.tsx) with the
\* listenKey requests and the stream session it drives
\* ------------------------------------------------------------------------
NextUser ==
    \/ \E b \in BOOLEAN : DemoModeChange(b)
    \/ \E k \in Keys : ApiKeyChange(k)
    \/ UnmountView
    \/ \E k \in 1..Len(calls), status \in Statuses :
          UserFetchRespond(k, status, <<>>)
    \/ \E k \in 1..Len(calls) : UserFetchFail(k)
    \/ \E i \in 1..Len(userEffects) : KeepAliveTimerFire(i)
    \/ \E i \in 1..Len(sessions) : \E k \in 1..Len(sessions[i].sockets) :
          SocketOpen(i, k)
    \/ \E i \in 1..Len(sessions) : \E k \in 1..Len(sessions[i].sockets) :
          SocketClose(i, k)
    \/ \E i \in 1..Len(sessions) : ReconnectTimerFire(i, FALSE)

SpecUser == Init /\ [][NextUser]_vars

\* ------------------------------------------------------------------------
\* Properties of the executor
\* ------------------------------------------------------------------------
\* the caller awaited placeOrder in live mode with both credentials
LivePlaceOrderCalled ==
    /\ op.kind = "direct"
    /\ attempts # <<>>
    /\ attempts[1].fn = "placeOrder"
    /\ ~op.demoMode
    /\ ~Falsy(op.creds.apiKey)
    /\ ~Falsy(op.creds.apiSecret)

\* a LIMIT order without price, or a STOP_LIMIT order without price or
\* without stop-trigger price
PriceMissing(order) ==
    \/ order.type = LIMIT /\ Falsy(order.price)
    \/ order.type = STOP_LIMIT /\ (Falsy(order.price) \/ Falsy(order.stopPrice))

\* C9: a live submit with credentials of a LIMIT order without price, or
\* of a STOP_LIMIT order without price or without stop-trigger price, is
\* rejected before the query string is signed and before any HTTP call.
C9_MissingPriceFailsBeforeSigning ==
    (LivePlaceOrderCalled /\ PriceMissing(op.orders[1]))
    => /\ op.outcome = "failed"
       /\ ~op.result.ok
       /\ op.result.message \in {"Price is required for LIMIT orders",
                                  "Price is required for STOP_LIMIT orders",
                                  "Stop Price is required for STOP_LIMIT orders"}
       /\ attempts[1].done
       /\ calls = <<>>
       /\ requests = <<>>

\* a STOP_LIMIT order with a price and no stop-trigger price was rejected
C9_Witness ==
    /\ LivePlaceOrderCalled
    /\ op.orders[1].type = STOP_LIMIT
    /\ ~Falsy(op.orders[1].price)
    /\ Falsy(op.orders[1].stopPrice)
    /\ op.outcome = "failed"

\* the texts between the separators sep of a text
RECURSIVE SplitText(_, _)
SplitText(text, sep) ==
    IF \A k \in 1..Len(text) : text[k] # sep
    THEN <<text>>
    ELSE LET k == CHOOSE j \in 1..Len(text) :
                      text[j] = sep /\ \A m \in 1..(j - 1) : text[m] # sep
         IN  <<SubSeq(text, 1, k - 1)>> \o SplitText(SubSeq(text, k + 1, Len(text)), sep)

\* the key=value pairs of a query string, in order
QueryPairs(query) ==
    LET parts == SplitText(query, "&")
    IN  [k \in 1..Len(parts) |->
           LET kv == SplitText(parts[k], "=")
           IN  <<IF kv[1] = <<>> THEN "" ELSE kv[1][1],
                 IF Len(kv) = 2 THEN kv[2] ELSE <<"?">> >>]

\* the part of a sent query string before its parameter "signature"
BeforeSignature(query) ==
    LET j == CHOOSE k \in 1..Len(query) :
                 query[k] = "signature" /\ \A m \in 1..(k - 1) : query[m] # "signature"
    IN  SubSeq(query, 1, j - 2)

\* the parameters the exchange expects for the order, before the signature
ExpectedOrderPairs(order) ==
    << <<"symbol", ToUpperCase(order.symbol)>>,
       <<"side", order.side>>,
       <<"quantity", order.quantity>>,
       <<"timestamp", Timestamp>>,
       <<"recvWindow", <<"5000">> >> >>
    \o CASE order.type = MARKET ->
               << <<"type", <<"MARKET">> >> >>
          [] order.type = LIMIT ->
               << <<"type", <<"LIMIT">> >>, <<"price", order.price>>,
                  <<"timeInForce", <<"GTC">> >> >>
          [] order.type = STOP_LIMIT ->
               << <<"type", <<"STOP">> >>, <<"price", order.price>>,
                  <<"stopPrice", order.stopPrice>>, <<"timeInForce", <<"GTC">> >> >>

\* C10: every live submit that reaches the network sends exactly symbol
\* (upper-cased), side, quantity, timestamp and recvWindow=5000, then
\* type=MARKET alone for a MARKET order (even one carrying a price),
\* type=LIMIT, price, timeInForce=GTC for LIMIT, and type=STOP, price,
\* stopPrice, timeInForce=GTC for STOP_LIMIT.
C10_SubmitParameters ==
    LivePlaceOrderCalled =>
        \A k \in 1..Len(requests) :
            /\ \E j \in 1..Len(requests[k].query) : requests[k].query[j] = "signature"
            /\ QueryPairs(BeforeSignature(requests[k].query))
                  = ExpectedOrderPairs(op.orders[1])

\* a MARKET order carrying a price and a lower-case symbol reached the network
C10_Witness ==
    /\ LivePlaceOrderCalled
    /\ requests # <<>>
    /\ op.orders[1].type = MARKET
    /\ ~Falsy(op.orders[1].price)
    /\ op.orders[1].symbol # ToUpperCase(op.orders[1].symbol)

\* the caller awaited cancelOrder in live mode with both credentials
LiveCancelOrderCalled ==
    /\ op.kind = "direct"
    /\ attempts # <<>>
    /\ attempts[1].fn = "cancelOrder"
    /\ ~op.demoMode
    /\ ~Falsy(op.creds.apiKey)
    /\ ~Falsy(op.creds.apiSecret)

\* the parameters of a cancel in the order they are assembled: the
\* identifier goes by orderId when it is made of decimal digits only
ExpectedCancelPairs(sym, orderId) ==
    << <<"symbol", ToUpperCase(sym)>>,
       <<"timestamp", Timestamp>>,
       <<"recvWindow", <<"5000">> >>,
       << IF orderId # <<>> /\ \A k \in 1..Len(orderId) :
                                 orderId[k] \in {"0", "1", "2", "3", "4", "5", "6", "7", "8", "9"}
          THEN "orderId" ELSE "origClientOrderId",
          orderId >> >>

\* the parameters of the live call in progress, in assembly order
ExpectedPairs ==
    IF attempts[1].fn = "placeOrder"
    THEN ExpectedOrderPairs(op.orders[1])
    ELSE ExpectedCancelPairs(op.orders[1].symbol, op.orderId)

C12_EveryRequestSigned ==
    op.kind = "direct" =>
        \A k \in 1..Len(requests) :
            /\ requests[k].apiKeyHeader = op.creds.apiKey
            /\ \E j \in 1..Len(requests[k].query) : requests[k].query[j] = "signature"
            /\ \E p \in 1..Len(QueryPairs(BeforeSignature(requests[k].query))) :
                   QueryPairs(BeforeSignature(requests[k].query))[p][1] = "timestamp"
            /\ \E p \in 1..Len(QueryPairs(BeforeSignature(requests[k].query))) :
                   QueryPairs(BeforeSignature(requests[k].query))[p]
                     = <<"recvWindow", <<"5000">> >>
            /\ requests[k].query
                  = BeforeSignature(requests[k].query)
                    \o <<"&", "signature", "=">>
                    \o hmacSha256(op.creds.apiSecret, BeforeSignature(requests[k].query))

\* the caller awaited placeOrder in simulated mode
DemoPlaceOrderCalled ==
    /\ op.kind = "direct"
    /\ attempts # <<>>
    /\ attempts[1].fn = "placeOrder"
    /\ op.demoMode

LiveOrderCallFetching ==
    /\ op.kind = "direct"
    /\ op.pc = "await"
    /\ ~op.demoMode
    /\ attempts[1].fn \in {"placeOrder", "cancelOrder"}
    /\ Len(calls) = 1
    /\ calls[1].pc = "fetch"

\* what the caller gets for a response with this status and message ("" when
\* the response has none)
ExpectedResult(result, status, msg) ==
    IF status \in 200..299
    THEN result.ok
    ELSE /\ ~result.ok
         /\ result.message = IF msg # "" THEN msg
                              ELSE "API Error: " \o ToString(status)

\* C14: for a live submit or cancel every non-success HTTP response gives
\* the caller an error carrying the message of the exchange when the
\* response has one and otherwise the HTTP status code; a success response
\* never gives an error.
C14_ResponseErrors ==
    [][LiveOrderCallFetching =>
         /\ \A status \in ExecStatuses, msg \in ExecMessages :
                FetchRespond(1, status, msg) => ExpectedResult(op'.result, status, msg)
         /\ \A status \in ExecStatuses :
                FetchRespondNotJson(1, status) => ExpectedResult(op'.result, status, "")]_vars

\* the keys of the parameters of a sent query string, signature excluded
SentKeys(query) ==
    [p \in 1..Len(QueryPairs(BeforeSignature(query))) |->
        QueryPairs(BeforeSignature(query))[p][1]]

\* how many of the keys are this one
KeyCount(keys, key) == Cardinality({p \in 1..Len(keys) : keys[p] = key})

DecimalDigits == {"0", "1", "2", "3", "4", "5", "6", "7", "8", "9"}

\* C15: every live cancel sends exactly one of the parameters orderId and
\* origClientOrderId: orderId when the identifier consists only of decimal
\* digits, origClientOrderId for any other string (a sign, a dot or a
\* space in a numeric-looking identifier included).
C15_CancelIdentifier ==
    LiveCancelOrderCalled =>
        \A k \in 1..Len(requests) :
            /\ \E j \in 1..Len(requests[k].query) : requests[k].query[j] = "signature"
            /\ KeyCount(SentKeys(requests[k].query), "orderId")
                 + KeyCount(SentKeys(requests[k].query), "origClientOrderId") = 1
            /\ KeyCount(SentKeys(requests[k].query), "orderId") = 1
                 <=> /\ op.orderId # <<>>
                     /\ \A c \in 1..Len(op.orderId) : op.orderId[c] \in DecimalDigits
            /\ \E p \in 1..Len(SentKeys(requests[k].query)) :
                 /\ SentKeys(requests[k].query)[p] \in {"orderId", "origClientOrderId"}
                 /\ QueryPairs(BeforeSignature(requests[k].query))[p][2] = op.orderId

\* a cancel by an identifier with a sign went out
C15_Witness ==
    /\ LiveCancelOrderCalled
    /\ requests # <<>>
    /\ op.orderId = <<"-", "4">>
    /\ KeyCount(SentKeys(requests[1].query), "origClientOrderId") = 1

\* ------------------------------------------------------------------------
\* Properties of the grid generator
\* ------------------------------------------------------------------------
\* generateGrid accepted the fields (they pass validation and the level
\* count is at least 2) and handed its orders to onSubmit
GridGenerated ==
    /\ evaluation.fn = "generateGrid"
    /\ evaluation.pc = "done"
    /\ evaluation.error = Null

LevelCount == ParseInt(evaluation.gridCount).n

PriceDecimals == getSymbolRules(evaluation.symbol).priceDecimals

\* the numerator of a decimal number at a scale not below its own
AtScale(a, scale) == a.n * Pow10(scale - a.s)

\* a - b in units of 10^-scale; scale is not below the scales of a and b
DecimalDifference(a, b, scale) == AtScale(a, scale) - AtScale(b, scale)

\* a scale not below those of the prices of the form and of 10^-decimals
LadderScale ==
    Max2(Max2(ParseFloat(evaluation.minPrice).s, ParseFloat(evaluation.maxPrice).s),
         Max2(ParseFloat(evaluation.refPrice).s, PriceDecimals))

\* (level i - reference price) * (LevelCount - 1), in units of 10^-LadderScale,
\* where level i = minPrice + i * (maxPrice - minPrice) / (LevelCount - 1)
LevelOffset(i) ==
    (LevelCount - 1) * DecimalDifference(ParseFloat(evaluation.minPrice),
                                         ParseFloat(evaluation.refPrice), LadderScale)
    + i * DecimalDifference(ParseFloat(evaluation.maxPrice),
                            ParseFloat(evaluation.minPrice), LadderScale)

\* level i lies within one price-precision unit of the reference price
LevelAtReference(i) ==
    Abs(LevelOffset(i)) * Pow10(PriceDecimals) < (LevelCount - 1) * Pow10(LadderScale)

\* the levels that do not lie within one unit of the reference, ascending
RECURSIVE LevelsKept(_)
LevelsKept(i) ==
    IF i >= LevelCount THEN <<>>
    ELSE (IF LevelAtReference(i) THEN <<>> ELSE <<i>>) \o LevelsKept(i + 1)

\* the price of an order is a number of the interval [minPrice, maxPrice]
PriceInRange(order) ==
    /\ NumLE(ParseFloat(evaluation.minPrice), ParseFloat(order.price))
    /\ NumLE(ParseFloat(order.price), ParseFloat(evaluation.maxPrice))

\* C16: for grid inputs that pass validation with levelCount = N >= 2 the
\* generator outputs exactly N minus the number of levels lying within one
\* price-precision unit of the reference price (at most N orders), and
\* every output price lies in [minPrice, maxPrice].
C16_GridCountAndRange ==
    GridGenerated =>
        /\ Len(evaluation.orders) = Len(LevelsKept(0))
        /\ Len(evaluation.orders) <= LevelCount
        /\ \A j \in 1..Len(evaluation.orders) : PriceInRange(evaluation.orders[j])

\* C17: for grid inputs that pass validation with levelCount >= 2 the
\* prices of the generated orders, as formatted to the price precision of
\* the symbol, are strictly increasing along the output (no two orders
\* share a price), also when the step between levels is smaller than one
\* price-precision unit.
C17_PricesStrictlyIncreasing ==
    GridGenerated =>
        \A j \in 1..(Len(evaluation.orders) - 1) :
            NumLT(ParseFloat(evaluation.orders[j].price),
                  ParseFloat(evaluation.orders[j + 1].price))

\* C18: the formatted price of every order of a generated grid differs
\* from the reference price by at least one unit of the price precision of
\* the symbol, also for a reference price that is no multiple of the unit.
C18_PricesOffReference ==
    GridGenerated =>
        \A j \in 1..Len(evaluation.orders) :
            /\ ~IsNaN(ParseFloat(evaluation.orders[j].price))
            /\ Abs(DecimalDifference(ParseFloat(evaluation.orders[j].price),
                                     ParseFloat(evaluation.refPrice), LadderScale))
                 >= Pow10(LadderScale - PriceDecimals)

\* C19: every order of a generated grid is a LIMIT order with time-in-force
\* GTC, the symbol and the quantity of the form; it is BUY exactly when its
\* level is below the reference price and SELL exactly when its level is
\* at or above it, so no BUY follows a SELL.
C19_GridOrderShape ==
    GridGenerated =>
        /\ Len(evaluation.orders) = Len(LevelsKept(0))
        /\ \A j \in 1..Len(evaluation.orders) :
              /\ evaluation.orders[j].type = LIMIT
              /\ evaluation.orders[j].timeInForce = <<"GTC">>
              /\ evaluation.orders[j].symbol = evaluation.symbol
              /\ evaluation.orders[j].quantity = evaluation.quantityPerGrid
              /\ evaluation.orders[j].side \in {BUY, SELL}
              /\ evaluation.orders[j].side = BUY <=> LevelOffset(LevelsKept(0)[j]) < 0
              /\ evaluation.orders[j].side = SELL <=> LevelOffset(LevelsKept(0)[j]) >= 0
        /\ \A j \in 1..Len(evaluation.orders), k \in 1..Len(evaluation.orders) :
              (j < k /\ evaluation.orders[j].side = SELL) => evaluation.orders[k].side = SELL

\* a grid with orders on both sides of the reference price, one level
\* dropped at the reference
C19_Witness ==
    /\ GridGenerated
    /\ Len(evaluation.orders) < LevelCount
    /\ \E j \in 1..Len(evaluation.orders) : evaluation.orders[j].side = BUY
    /\ \E j \in 1..Len(evaluation.orders) : evaluation.orders[j].side = SELL

\* ------------------------------------------------------------------------
\* Properties of the validator
\* ------------------------------------------------------------------------
\* the text is missing or is no number
NotANumber(text) == Falsy(text) \/ IsNaN(ParseFloat(text))

Rule(applies, violated, error) ==
    [applies |-> applies, violated |-> violated, error |-> error]

\* the rules of validateOrderInput in their fixed order
OrderRules(order) ==
    << Rule(TRUE, NotANumber(order.quantity),
            "Quantity is required and must be a number."),
       Rule(TRUE, NumLT(ParseFloat(order.quantity), getSymbolRules(order.symbol).minQty),
            "Quantity is below the minimum allowed."),
       Rule(TRUE, countDecimals(order.quantity) > getSymbolRules(order.symbol).qtyDecimals,
            "Quantity precision too high."),
       Rule(order.type \in {LIMIT, STOP_LIMIT}, NotANumber(order.price),
            "Price is required for Limit/Stop-Limit orders."),
       Rule(order.type \in {LIMIT, STOP_LIMIT}, NumLE(ParseFloat(order.price), Dec(0, 0)),
            "Price must be greater than 0."),
       Rule(order.type \in {LIMIT, STOP_LIMIT},
            countDecimals(order.price) > getSymbolRules(order.symbol).priceDecimals,
            "Price precision too high."),
       Rule(order.type = STOP_LIMIT, NotANumber(order.stopPrice),
            "Stop Price is required for Stop-Limit orders."),
       Rule(order.type = STOP_LIMIT, NumLE(ParseFloat(order.stopPrice), Dec(0, 0)),
            "Stop Price must be greater than 0."),
       Rule(order.type = STOP_LIMIT,
            countDecimals(order.stopPrice) > getSymbolRules(order.symbol).priceDecimals,
            "Stop Price precision too high.") >>

\* the applicable rules the order violates, by their place in the order
Violated(order) ==
    {k \in 1..Len(OrderRules(order)) :
        OrderRules(order)[k].applies /\ OrderRules(order)[k].violated}

OrderChecked == evaluation.fn = "validateOrderInput" /\ evaluation.pc = "done"

\* C20: validateOrderInput applies its rules in the fixed order quantity
\* present/numeric, quantity >= minQty, quantity precision, then (LIMIT and
\* STOP_LIMIT only) price present/numeric, price > 0, price precision, then
\* (STOP_LIMIT only) stop price present/numeric, > 0, precision; the error
\* returned is that of the first rule violated, and null is returned
\* exactly when no applicable rule is violated (price rules never apply to
\* MARKET).
C20_FirstViolatedRule ==
    OrderChecked =>
        /\ evaluation.error = Null <=> Violated(evaluation.order) = {}
        /\ \A k \in Violated(evaluation.order) :
              (\A m \in Violated(evaluation.order) : k <= m)
              => evaluation.error = OrderRules(evaluation.order)[k].error
        /\ evaluation.order.type = MARKET =>
              evaluation.error \in {Null, OrderRules(evaluation.order)[1].error,
                                    OrderRules(evaluation.order)[2].error,
                                    OrderRules(evaluation.order)[3].error}

\* a quantity below the minimum and too precise at once, on an order whose
\* price is not positive and too precise: the minimum is reported
C20_Witness ==
    /\ OrderChecked
    /\ {2, 3, 5, 6} \subseteq Violated(evaluation.order)
    /\ evaluation.error = "Quantity is below the minimum allowed."

\* the number of characters of a text after its decimal point
CharsAfterPoint(text) ==
    IF \A k \in 1..Len(text) : text[k] # "."
    THEN 0
    ELSE Len(text) - (CHOOSE k \in 1..Len(text) :
                         text[k] = "." /\ \A m \in 1..(k - 1) : text[m] # ".")

\* C21: for any symbol the validator rejects a quantity below the minQty of
\* the symbol, and rejects a quantity or (on an order with a price: LIMIT,
\* STOP_LIMIT) a price that has more characters after the decimal point
\* than the symbol allows, also when the extra digits are trailing zeros
\* and the value is acceptable.
C21_MinimumAndTextualPrecision ==
    OrderChecked =>
        /\ NumLT(ParseFloat(evaluation.order.quantity),
                 getSymbolRules(evaluation.order.symbol).minQty)
             => evaluation.error # Null
        /\ CharsAfterPoint(evaluation.order.quantity)
               > getSymbolRules(evaluation.order.symbol).qtyDecimals
             => evaluation.error # Null
        /\ (/\ evaluation.order.type \in {LIMIT, STOP_LIMIT}
            /\ CharsAfterPoint(evaluation.order.price)
                  > getSymbolRules(evaluation.order.symbol).priceDecimals)
             => evaluation.error # Null

\* quantity "0.0010" on BTCUSDT (three decimals, minimum 0.001) is rejected
\* for its precision
C21_Witness ==
    /\ OrderChecked
    /\ evaluation.order.symbol = BTCUSDT
    /\ evaluation.order.quantity = <<"0", ".", "0", "0", "1", "0">>
    /\ evaluation.error = "Quantity precision too high."

\* the error of validateOrderInput for a MARKET order of this quantity:
\* only the quantity rules apply to it
QuantityError(sym, quantity) ==
    validateOrderInput(OrderRequest(sym, BUY, MARKET, quantity, Undefined, Undefined,
                                    Undefined))

\* C22: validateGridInput accepts grid parameters only if minPrice <
\* maxPrice, minPrice > 0, both prices are numbers within the price
\* precision of the symbol, and the quantity passes the quantity rules of
\* validateOrderInput (present, numeric, >= minQty, within the precision).
C22_GridParametersAccepted ==
    (/\ evaluation.fn = "validateGridInput"
     /\ evaluation.pc = "done"
     /\ evaluation.error = Null)
    => /\ ~IsNaN(ParseFloat(evaluation.minPrice))
       /\ ~IsNaN(ParseFloat(evaluation.maxPrice))
       /\ NumLT(ParseFloat(evaluation.minPrice), ParseFloat(evaluation.maxPrice))
       /\ NumLT(Dec(0, 0), ParseFloat(evaluation.minPrice))
       /\ CharsAfterPoint(evaluation.minPrice) <= getSymbolRules(evaluation.symbol).priceDecimals
       /\ CharsAfterPoint(evaluation.maxPrice) <= getSymbolRules(evaluation.symbol).priceDecimals
       /\ QuantityError(evaluation.symbol, evaluation.quantity) = Null

\* ------------------------------------------------------------------------
\* Properties of one stream session
\* ------------------------------------------------------------------------
\* the sockets of the session that are connecting or open
LiveSockets(s) ==
    {k \in 1..Len(s.sockets) : s.sockets[k].state \in {"CONNECTING", "OPEN"}}

\* C28: in every reachable state a stream session (ticker or user data) has
\* at most one socket connecting or open and at most one reconnect timeout
\* pending, and no reconnect timeout is pending while a socket of the
\* session is connecting or open.
C28_OneSocketOrOneTimer ==
    \A i \in 1..Len(sessions) :
        /\ Cardinality(LiveSockets(sessions[i])) <= 1
        /\ sessions[i].timers <= 1
        /\ sessions[i].timers > 0 => LiveSockets(sessions[i]) = {}

\* a session that lost its socket, reconnected and has its second socket open
C28_Witness ==
    \E i \in 1..Len(sessions) :
        /\ sessions[i].active
        /\ sessions[i].attempt = 0
        /\ sessions[i].timers = 0
        /\ Cardinality(LiveSockets(sessions[i])) = 1
        /\ \E k \in LiveSockets(sessions[i]) : sessions[i].sockets[k].state = "OPEN"

\* ------------------------------------------------------------------------
\* Properties of the ticker debounce
\* ------------------------------------------------------------------------
\* C26: a ticker session is subscribed only in a step in which the pending
\* debounce timeout fires, for the symbol selected since that timeout was
\* armed, and only if the symbol has at least 3 characters; a step that
\* changes the symbol subscribes nothing and starts the debounce period
\* anew, so the timeout of the replaced symbol never fires.
C26_TickerDebounced ==
    [][/\ Len(sessions') > Len(sessions)
          => /\ tickerTimer = DEBOUNCE_DELAY
             /\ tickerTimer' = NoTimer
             /\ symbol' = symbol
             /\ Len(symbol) >= 3
             /\ Len(sessions') = Len(sessions) + 1
             /\ sessions'[Len(sessions')].target = symbol
       /\ symbol' # symbol
          => /\ Len(sessions') = Len(sessions)
             /\ tickerTimer' = DEBOUNCE_DELAY
       /\ \A i \in 1..Len(sessions') :
             sessions'[i].kind = "ticker" => Len(sessions'[i].target) >= 3]_vars

\* BTCUSDT was replaced before its timeout fired and has no session, ETHUSDT
\* stayed for the period and has one, and the timeout of the two-character
\* symbol selected now has fired without subscribing
C26_Witness ==
    /\ Len(sessions) = 1
    /\ sessions[1].target = ETHUSDT
    /\ symbol = <<"B", "T">>
    /\ tickerTimer = NoTimer

\* session i hands a tick to the price callback in this step
TickDelivered(i) ==
    /\ sessions[i].callback = "setCurrentPrice"
    /\ sessions'[i] # sessions[i]
    /\ sessions'[i].lastEvent = "delivered"

\* C29: the current price comes from a tick of the selected symbol: a tick
\* is handed to the price callback only by a session of the selected
\* symbol, and when the symbol changes the price of the previous symbol is
\* not kept as the current price.
C29_PriceOfSelectedSymbol ==
    [][/\ \A i \in 1..Len(sessions) : TickDelivered(i) => sessions[i].target = symbol
       /\ symbol' # symbol => Falsy(currentPrice')]_vars

\* ------------------------------------------------------------------------
\* Properties of the handlers' captured settings
\* ------------------------------------------------------------------------
\* C25: a single-order submission or a grid dispatch reads the mode and the
\* credentials when it starts and keeps them while it is in flight: every
\* placeOrder call it makes gets that mode and those credentials, also
\* after the mode toggle or the credential fields have changed.
C25_SettingsCapturedAtStart ==
    [][/\ (~isLoading /\ isLoading' /\ op'.kind \in {"order", "grid"})
          => /\ op'.demoMode = demoMode
             /\ op'.creds = [apiKey |-> apiKey, apiSecret |-> apiSecret]
       /\ (isLoading /\ isLoading')
          => /\ op'.demoMode = op.demoMode
             /\ op'.creds = op.creds
       /\ op'.kind \in {"order", "grid"}
          => /\ \A a \in 1..Len(attempts') : attempts'[a].isDemo = op'.demoMode
             /\ \A k \in 1..Len(calls') : calls'[k].creds = op'.creds]_vars

\* the second order of a grid is being submitted with the mode and the
\* credentials of the start, after both have been changed
C25_Witness ==
    /\ op.kind = "grid"
    /\ Len(attempts) = 2
    /\ Len(calls) = 1
    /\ calls[1].id = attempts[2].id
    /\ attempts[2].isDemo = op.demoMode
    /\ calls[1].creds = op.creds
    /\ demoMode # op.demoMode
    /\ apiKey # op.creds.apiKey

\* ------------------------------------------------------------------------
\* Properties of the isLoading flag
\* ------------------------------------------------------------------------
\* a handler is suspended on placeOrder / cancelOrder or on the inter-order
\* timeout
InFlight == op.kind \in {"order", "grid", "cancel"} /\ op.pc # "idle"

\* C30: isLoading is true as long as a single-order submission, a grid
\* dispatch or a cancel is in flight and false when none is, and whenever
\* it is true it becomes false again: every path of the three handlers
\* ends with setIsLoading(false).
C30_LoadingWhileInFlight ==
    /\ [](isLoading <=> InFlight)
    /\ isLoading ~> ~isLoading

\* a live grid of two or more orders has completed with every order failed
C30_Witness ==
    /\ op.kind = "grid"
    /\ op.outcome = "complete"
    /\ Len(op.orders) >= 2
    /\ op.failCount = Len(op.orders)
    /\ ~isLoading

\* ------------------------------------------------------------------------
\* Properties of the user-data effect
\* ------------------------------------------------------------------------
\* renewal a has been requested and has not settled
RenewalPending(a) ==
    /\ a \in 1..Len(attempts)
    /\ attempts[a].fn = "keepAliveListenKey"
    /\ ~attempts[a].done

\* renewals that failed so far
FailedRenewals ==
    {a \in 1..Len(attempts) :
        attempts[a].fn = "keepAliveListenKey" /\ attempts[a].done /\ ~attempts[a].ok}

\* run i of the effect holds an open socket, an active session and an armed
\* renewal interval
UserStreamUp(i) ==
    /\ userEffects[i].keepAliveInterval # NoTimer
    /\ userEffects[i].cleanupFn # 0
    /\ sessions[userEffects[i].cleanupFn].active
    /\ \E k \in 1..Len(sessions[userEffects[i].cleanupFn].sockets) :
          sessions[userEffects[i].cleanupFn].sockets[k].state = "OPEN"

\* C23: a step in which keepAliveListenKey rejects adds one 'WARN' record
\* "Failed to extend ListenKey" to the log and changes nothing else: the
\* sessions with their sockets, the runs of the effect with their renewal
\* intervals and the settings are as before, whatever number of renewals
\* failed earlier.
C23_FailedRenewalOnlyWarns ==
    [][\A a \in 1..Len(attempts) :
          (RenewalPending(a) /\ Len(attempts') = Len(attempts)
           /\ attempts'[a].done /\ ~attempts'[a].ok)
          => /\ Len(logs') = Len(logs) + 1
             /\ SubSeq(logs', 1, Len(logs)) = logs
             /\ logs'[Len(logs')].level = "WARN"
             /\ logs'[Len(logs')].message = "Failed to extend ListenKey"
             /\ sessions' = sessions
             /\ userEffects' = userEffects
             /\ UNCHANGED <<settingVars, isLoading, op>>]_vars

\* two renewals in a row have failed, and the stream of the run is still up
C23_Witness ==
    /\ Cardinality(FailedRenewals) = 2
    /\ Renewals = 2
    /\ \E i \in 1..Len(userEffects) : UserStreamUp(i)

\* the token request of attempt a settles in this step, successfully or not
TokenSettles(a, ok) ==
    /\ attempts[a].fn = "getListenKey"
    /\ ~attempts[a].done
    /\ Len(attempts') = Len(attempts)
    /\ attempts'[a].done
    /\ attempts'[a].ok = ok

\* the runs of the effect whose renewal interval is armed
ArmedIntervals(effects) ==
    {i \in 1..Len(effects) : effects[i].keepAliveInterval # NoTimer}

\* a user-stream session with its socket is created in this step only when
\* a token request resolves
SocketAfterToken == 
    Len(sessions') > Len(sessions) => \E a \in 1..Len(attempts) : TokenSettles(a, TRUE)

\* a step in which the token request rejects creates no session, arms no
\* interval and logs the failure; the rejection stays inside connectUserData
TokenFailureReported ==
    \A a \in 1..Len(attempts) :
        TokenSettles(a, FALSE)
        => /\ sessions' = sessions
           /\ ArmedIntervals(userEffects') = ArmedIntervals(userEffects)
           /\ \E i \in 1..Len(userEffects) :
                 /\ userEffects[i].pc = "await"
                 /\ userEffects'[i].pc = "failed"
                 /\ userEffects'[i].cleanupFn = 0
           /\ Len(logs') = Len(logs) + 1
           /\ logs'[Len(logs')].level = "ERROR"
           /\ logs'[Len(logs')].message
                = "Failed to connect to User Stream. Check API Key/Network."

\* C24: a user-stream session with its socket is created only in a step in
\* which the token request resolves and only while the view is in live mode
\* with a non-empty API key; a step in which the token request rejects
\* creates no session, arms no renewal interval and adds an 'ERROR' record.
C24_SocketOnlyLiveAfterToken ==
    [][/\ SocketAfterToken
       /\ Len(sessions') > Len(sessions) => ~demoMode /\ ~Falsy(apiKey)
       /\ TokenFailureReported]_vars

\* C27: once the function returned by a run of the user-data effect has
\* been called (mode switched, API key edited or view torn down), that run
\* has no active session and no armed renewal interval, also when the call
\* came while the run's token request was in flight.
C27_CleanedEffectHoldsNothing ==
    \A i \in 1..Len(userEffects) :
        userEffects[i].cleaned
        => /\ userEffects[i].keepAliveInterval = NoTimer
           /\ userEffects[i].cleanupFn # 0 => ~sessions[userEffects[i].cleanupFn].active

====
